---- MODULE Spec2Model ----
(***************************************************************************)
(* CLAWS OF DOOM v3.2 (src/systems/claws_engine.py): the quote and         *)
(* sentiment resolvers and the lifecycle of picks across runs.             *)
(*                                                                         *)
(* Units.  A price is an integer number of thousandths of a dollar, so     *)
(* 100000 is $100.00 and round(x, 2) is a rounding to a multiple of 10.    *)
(* A 24h change is a whole number of percent.  A P&L percent is an integer *)
(* number of hundredths of a percent (the two decimals round(.., 2) keeps).*)
(* Rounding is Python's round-half-to-even, taken on the exact quotient.   *)
(***************************************************************************)
EXTENDS Integers, Sequences, FiniteSets, TLC

VARIABLES
    pc,             \* position of the current process in BulletproofClaws.run
    net,            \* what the remote services answer during this run
    now,            \* wall clock of the run (est_iso resolution)
    runs,           \* process invocations started so far
    fg,             \* run(): fg
    fg_source,      \* run(): fg_source
    fng_requests,   \* requests sent to api.alternative.me in this run
    api_calls,      \* price adapters invoked by get_prices, in order
    prices,         \* run(): prices (NoneMap for None)
    source,         \* run(): source ("None" for None)
    audit,          \* self.audit.entries
    picks,          \* self.picks
    active_picks,   \* run(): active_picks
    newly_closed,   \* run(): newly_closed
    active_file,    \* docs/active_picks.json
    closed_file,    \* docs/closed_picks.json
    result,         \* __main__: result, the report run() returns and writes
    discord         \* discord_notify: what each notifier run has posted

vars == <<pc, net, now, runs, fg, fg_source, fng_requests, api_calls, prices,
          source, audit, picks, active_picks, newly_closed, active_file,
          closed_file, result, discord>>

(***************************************************************************)
(* Bounds of the model.                                                    *)
(***************************************************************************)
\* Process invocations explored.
MaxRuns == 3

(***************************************************************************)
(* Program constants.                                                      *)
(***************************************************************************)
CAPITAL_BASE == 10000

\* The symbol universe, in dict order.  The source lists ten coins; the
\* model keeps the first two.
SYMBOLS == <<"BTC", "ETH">>

SymbolSet == {SYMBOLS[k] : k \in 1..Len(SYMBOLS)}

\* A JSON null where a number is expected (api_coingecko and
\* api_cryptocompare pass the decoded value on without converting it).
JsonNull == -999999

\* Python's None for a price map; `if prices:` treats None and {} alike.
NoneMap == [c \in {} |-> <<0, 0>>]

\* round-half-to-even of n / d, d # 0.
RoundDiv(n, d) ==
    LET nn == IF d < 0 THEN -n ELSE n
        dd == IF d < 0 THEN -d ELSE d
        q == nn \div dd
        r == nn % dd
    IN  IF 2 * r < dd THEN q
        ELSE IF 2 * r > dd THEN q + 1
        ELSE IF q % 2 = 0 THEN q ELSE q + 1

\* Floor and remainder of n * m / d by long division, m a power of ten and
\* d > 0, from the floor q and remainder r of n / d.
RECURSIVE LongDiv(_, _, _, _)
LongDiv(q, r, m, d) ==
    IF m <= 1 THEN <<q, r>>
    ELSE LongDiv(10 * q + ((10 * r) \div d), (10 * r) % d, m \div 10, d)

\* round-half-to-even of n * m / d, m a power of ten and d # 0, without
\* forming the product n * m.
RoundScaled(n, m, d) ==
    LET nn == IF d < 0 THEN -n ELSE n
        dd == IF d < 0 THEN -d ELSE d
        qr == LongDiv(nn \div dd, nn % dd, m, dd)
        q == qr[1]
        r == qr[2]
    IN  IF 2 * r < dd THEN q
        ELSE IF 2 * r > dd THEN q + 1
        ELSE IF q % 2 = 0 THEN q ELSE q + 1

\* round(price, 2) of a price in thousandths.
Round2(p) == 10 * RoundDiv(p, 10)

(***************************************************************************)
(* AuditTrail.log: an entry is the event, who it is about, the status      *)
(* keyword and the detail text (timestamps left out).                      *)
(***************************************************************************)
Entry(event, who, status, detail) ==
    [event |-> event, who |-> who, status |-> status, detail |-> detail]

(***************************************************************************)
(* Responses of the remote services.  kind is "exc" (requests.get or the   *)
(* decoding raises), "http" (a status other than 200) or "ok" (status 200).*)
(* A per-coin service answers each coin with a quote <<price, change>>; a  *)
(* bulk service answers with a map from the coins it knows to quotes.      *)
(***************************************************************************)
CoinExc == [kind |-> "exc", quote |-> <<0, 0>>]
CoinHttp == [kind |-> "http", quote |-> <<0, 0>>]
CoinOk(q) == [kind |-> "ok", quote |-> q]

BulkExc == [kind |-> "exc", body |-> NoneMap]
BulkHttp == [kind |-> "http", body |-> NoneMap]
BulkOk(m) == [kind |-> "ok", body |-> m]

\* The result of an adapter: (prices, source) and the entries it logged.
ApiReturn(p, s, log) == [prices |-> p, source |-> s, log |-> log]

\* api_binance's loop over SYMBOLS, from coin k on.
RECURSIVE binance_loop(_, _, _, _)
binance_loop(resp, k, acc, log) ==
    IF k > Len(SYMBOLS) THEN [prices |-> acc, log |-> log, raised |-> FALSE]
    ELSE LET coin == SYMBOLS[k]
             r == resp[coin]
         IN  CASE r.kind = "exc" ->
                    [prices |-> acc, raised |-> TRUE,
                     log |-> Append(log, Entry("API_ERROR", "Binance", "FAIL", "exception"))]
               [] r.kind = "http" ->
                    binance_loop(resp, k + 1, acc,
                        Append(log, Entry("API_CALL", "Binance", "FAIL", "HTTP")))
               [] OTHER ->
                    binance_loop(resp, k + 1, acc @@ (coin :> r.quote),
                        Append(log, Entry("API_CALL", "Binance", "OK", coin)))

api_binance(resp) ==
    LET r == binance_loop(resp, 1, NoneMap, <<>>)
    IN  IF ~r.raised /\ DOMAIN r.prices # {}
        THEN ApiReturn(r.prices, "binance", r.log)
        ELSE ApiReturn(NoneMap, "None", r.log)

api_coingecko(resp) ==
    CASE resp.kind = "exc" ->
            ApiReturn(NoneMap, "None", <<Entry("API_ERROR", "CoinGecko", "FAIL", "exception")>>)
      [] resp.kind = "http" ->
            ApiReturn(NoneMap, "None", <<Entry("API_CALL", "CoinGecko", "FAIL", "HTTP")>>)
      [] OTHER ->
            LET log == <<Entry("API_CALL", "CoinGecko", "OK", "coins OK")>>
            IN  IF DOMAIN resp.body # {}
                THEN ApiReturn(resp.body, "coingecko", log)
                ELSE ApiReturn(NoneMap, "None", log)

api_cryptocompare(resp) ==
    CASE resp.kind = "exc" ->
            ApiReturn(NoneMap, "None", <<Entry("API_ERROR", "CryptoCompare", "FAIL", "exception")>>)
      [] resp.kind = "http" ->
            ApiReturn(NoneMap, "None", <<Entry("API_CALL", "CryptoCompare", "FAIL", "HTTP")>>)
      [] OTHER ->
            IF DOMAIN resp.body # {}
            THEN ApiReturn(resp.body, "cryptocompare",
                           <<Entry("API_CALL", "CryptoCompare", "OK", "coins OK")>>)
            ELSE ApiReturn(NoneMap, "None", <<>>)

\* api_coincap's loop over SYMBOLS, from coin k on: a status other than 200
\* is skipped without a word.
RECURSIVE coincap_loop(_, _, _)
coincap_loop(resp, k, acc) ==
    IF k > Len(SYMBOLS) THEN [prices |-> acc, raised |-> FALSE]
    ELSE LET coin == SYMBOLS[k]
             r == resp[coin]
         IN  CASE r.kind = "exc" -> [prices |-> acc, raised |-> TRUE]
               [] r.kind = "http" -> coincap_loop(resp, k + 1, acc)
               [] OTHER -> coincap_loop(resp, k + 1, acc @@ (coin :> r.quote))

api_coincap(resp) ==
    LET r == coincap_loop(resp, 1, NoneMap)
    IN  IF r.raised
        THEN ApiReturn(NoneMap, "None", <<Entry("API_ERROR", "CoinCap", "FAIL", "exception")>>)
        ELSE IF DOMAIN r.prices # {}
        THEN ApiReturn(r.prices, "coincap", <<Entry("API_CALL", "CoinCap", "OK", "coins OK")>>)
        ELSE ApiReturn(NoneMap, "None", <<Entry("API_CALL", "CoinCap", "FAIL", "no data")>>)

api_coinlore(resp) ==
    CASE resp.kind = "exc" ->
            ApiReturn(NoneMap, "None", <<Entry("API_ERROR", "CoinLore", "FAIL", "exception")>>)
      [] resp.kind = "http" ->
            ApiReturn(NoneMap, "None", <<Entry("API_CALL", "CoinLore", "FAIL", "HTTP")>>)
      [] OTHER ->
            IF DOMAIN resp.body # {}
            THEN ApiReturn(resp.body, "coinlore", <<Entry("API_CALL", "CoinLore", "OK", "OK")>>)
            ELSE ApiReturn(NoneMap, "None", <<>>)

\* get_prices: the list of adapters, in the order they are tried.
apis == <<"binance", "coingecko", "cryptocompare", "coincap", "coinlore">>

\* The name an adapter's audit entries carry.
ApiLabel(a) ==
    CASE a = "binance" -> "Binance"
      [] a = "coingecko" -> "CoinGecko"
      [] a = "cryptocompare" -> "CryptoCompare"
      [] a = "coincap" -> "CoinCap"
      [] OTHER -> "CoinLore"

\* api_fn() for the adapter named a, against the answers n.
ApiCall(a, n) ==
    CASE a = "binance" -> api_binance(n.binance)
      [] a = "coingecko" -> api_coingecko(n.coingecko)
      [] a = "cryptocompare" -> api_cryptocompare(n.cryptocompare)
      [] a = "coincap" -> api_coincap(n.coincap)
      [] OTHER -> api_coinlore(n.coinlore)

\* An acceptance test that wants every symbol (len(prices) == len(SYMBOLS)).
TruthyFull(m) == DOMAIN m = SymbolSet

\* `if prices:` on an adapter's return value.
Truthy(m) == DOMAIN m # {}

\* A loop that leaves the first adapter out (for loop over apis[1:]).
ApiIndexFromSecond(calls) == Len(calls) + 2

\* The position of get_prices' for loop once the adapters in calls were tried.
ApiIndex(calls) == Len(calls) + 1

(***************************************************************************)
(* get_fear_greed against the answer resp of api.alternative.me: the value,*)
(* the source tag and the entries logged.  A malformed payload raises in   *)
(* r.json()['data'][0] or int(..) and lands in the same except clause as a *)
(* failed request.                                                         *)
(***************************************************************************)
FngExc == [kind |-> "exc", value |-> 0]
FngHttp == [kind |-> "http", value |-> 0]
FngMalformed == [kind |-> "malformed", value |-> 0]
FngOk(v) == [kind |-> "ok", value |-> v]

\* A resolver that falls back to a neutral 50, as the v2 engine did.
get_fear_greed_neutral(resp) ==
    IF resp.kind = "ok"
    THEN [value |-> resp.value, source |-> "alternative.me",
          log |-> <<Entry("FEAR_GREED", "alternative.me", "", "value")>>]
    ELSE [value |-> 50, source |-> "estimated",
          log |-> <<Entry("FEAR_GREED", "estimated", "", "API failed, using estimate")>>]

get_fear_greed(resp) ==
    CASE resp.kind = "ok" ->
            [value |-> resp.value, source |-> "alternative.me",
             log |-> <<Entry("FEAR_GREED", "alternative.me", "", "value")>>]
      [] resp.kind = "http" ->
            [value |-> 25, source |-> "estimated",
             log |-> <<Entry("FEAR_GREED", "estimated", "", "API failed, using estimate")>>]
      [] OTHER ->
            [value |-> 25, source |-> "estimated",
             log |-> <<Entry("API_ERROR", "Fear & Greed API", "FAIL", "exception"),
                       Entry("FEAR_GREED", "estimated", "", "API failed, using estimate")>>]

(***************************************************************************)
(* Picks.  A pick is a Python dict: a function from the keys it has to     *)
(* their values.  Keys that only feed the dashboard text (strategy_name,   *)
(* strategy_description, strategy_edge, confidence_explanation, reason,    *)
(* risk_reward_ratio, WARNING and the indicator read-outs) are left out.   *)
(* position_pct is in thousandths, confidence in hundredths.               *)
(***************************************************************************)
\* pick.get(k, d)
Get(p, k, d) == IF k \in DOMAIN p THEN p[k] ELSE d

\* pick[k] = v
Put(p, k, v) == (k :> v) @@ p

\* The minute of a clock reading (strftime('%Y%m%d_%H%M')): the clock ticks
\* twice a minute.
Minute(t) == t \div 2

\* round(price * multiplier, 2), the multiplier given in percent.
RoundMul(price, mult) == 10 * RoundDiv(price * mult, 1000)

\* _confidence_score: base 0.55, fear bonus (25 - fg) / 25 * 0.15 for
\* fg <= 25, momentum bonus min(0.10, |change| * 0.005), the technical bonus
\* (in thousandths), capped at 0.80 and rounded to two decimals.
Abs(x) == IF x < 0 THEN -x ELSE x

Min(a, b) == IF a < b THEN a ELSE b

\* Lines 431-437 and the sum of line 439 without the base: fear_bonus +
\* momentum_bonus + technical_bonus, in thousandths.
BonusSum(f, change_pct, technical_bonus) ==
    LET fear_bonus == IF f <= 25 THEN (25 - f) * 6 ELSE 0
        momentum_bonus == Min(100, Abs(change_pct) * 5)
    IN  fear_bonus + momentum_bonus + technical_bonus

\* A score without the cap of 0.80.
_confidence_score_uncapped(f, change_pct, technical_bonus) ==
    RoundDiv(550 + BonusSum(f, change_pct, technical_bonus), 10)

_confidence_score(f, change_pct, technical_bonus) ==
    LET base == 550
    IN  RoundDiv(Min(800, base + BonusSum(f, change_pct, technical_bonus)), 10)

\* The technical bonuses the strategies pass, in thousandths: of
\* funding_rate_carry for a rate in hundredths of a percent (line 647), of
\* rsi_overbought_short (lines 717-718) and of ema_bearish_cross (lines
\* 806-808) for an RSI in hundredths.
funding_tech_bonus(rate) == Min(100, Abs(rate) * 5)

rsi_tech_bonus(rsi) == Min(100, ((rsi - 7000) * 100) \div 3000)

ema_tech_bonus(rsi) == 50 + (IF rsi # 0 /\ rsi < 4500 THEN 30 ELSE 0)

\* The dict a strategy builds for coin at quote q.
NewPick(prefix, coin, strategy, direction, confidence, q, tp, sl, position, src, f, t) ==
    [id |-> <<prefix, coin, Minute(t)>>,
     symbol |-> coin,
     strategy |-> strategy,
     direction |-> direction,
     confidence |-> confidence,
     entry_price |-> Round2(q[1]),
     tp_price |-> tp,
     sl_price |-> sl,
     position_pct |-> position,
     timestamp_est |-> t,
     data_source |-> src,
     fg_value |-> f,
     change_24h_pct |-> q[2]]

\* The coins of a price map in the order the strategies iterate them.
CoinsOf(m) == SelectSeq(SYMBOLS, LAMBDA c : c \in DOMAIN m)

\* `if not price or price <= 0: continue`
Usable(q) == q[1] > 0

\* A strategy's result: the picks and the audit entries, in order.
StrategyReturn(ps, log) == [picks |-> ps, log |-> log]

RECURSIVE FlattenSeq(_)
FlattenSeq(ss) == IF ss = <<>> THEN <<>> ELSE Head(ss) \o FlattenSeq(Tail(ss))

\* [f(c) for the coins c of the sequence cs that pass test], concatenated.
PicksOver(cs, test(_), make(_)) ==
    FlattenSeq([k \in 1..Len(cs) |-> IF test(cs[k]) THEN <<make(cs[k])>> ELSE <<>>])

strategy_extreme_fear(m, f, src, t) ==
    IF f > 25
    THEN StrategyReturn(<<>>, <<Entry("STRATEGY_SKIP", "extreme_fear", "", "not triggered")>>)
    ELSE LET make(c) ==
                Put(NewPick("fear", c, "extreme_fear", "LONG",
                            _confidence_score(f, m[c][2], 0), m[c],
                            RoundMul(m[c][1], 106), RoundMul(m[c][1], 95), 35, src, f, t),
                    "fg_source", "alternative.me")
             ps == PicksOver(CoinsOf(m), LAMBDA c : Usable(m[c]), make)
         IN  StrategyReturn(ps,
                <<Entry("STRATEGY_TRIGGERED", "extreme_fear", "", "triggered")>>
                \o [k \in 1..Len(ps) |-> Entry("PICK_GENERATED", "extreme_fear", "", ps[k].symbol)])

strategy_crash_reversal(m, f, src, t) ==
    LET make(c) ==
            NewPick("crash", c, "crash_reversal", "LONG",
                    _confidence_score(f, m[c][2], 0), m[c],
                    RoundMul(m[c][1], 105), RoundMul(m[c][1], 96), 30, src, f, t)
        ps == PicksOver(CoinsOf(m), LAMBDA c : Usable(m[c]) /\ m[c][2] < -10, make)
    IN  StrategyReturn(ps,
            [k \in 1..Len(ps) |-> Entry("PICK_GENERATED", "crash_reversal", "", ps[k].symbol)]
            \o (IF ps = <<>>
                THEN <<Entry("STRATEGY_SKIP", "crash_reversal", "", "no coin dropped")>>
                ELSE <<>>))

strategy_momentum_breakout(m, f, src, t) ==
    IF f < 50
    THEN StrategyReturn(<<>>, <<Entry("STRATEGY_SKIP", "momentum_breakout", "", "not triggered")>>)
    ELSE LET make(c) ==
                NewPick("momentum", c, "momentum_breakout", "LONG",
                        _confidence_score(f, m[c][2], 0), m[c],
                        RoundMul(m[c][1], 108), RoundMul(m[c][1], 94), 25, src, f, t)
             ps == PicksOver(CoinsOf(m), LAMBDA c : Usable(m[c]) /\ m[c][2] >= 5, make)
         IN  StrategyReturn(ps,
                [k \in 1..Len(ps) |-> Entry("PICK_GENERATED", "momentum_breakout", "", ps[k].symbol)]
                \o (IF ps = <<>>
                    THEN <<Entry("STRATEGY_SKIP", "momentum_breakout", "", "no coin up")>>
                    ELSE <<>>))

(***************************************************************************)
(* get_funding_rates against the answers fr of fapi.binance.com, one per   *)
(* coin: kind "ok" carries the rate, in hundredths of a percent, "empty"   *)
(* is a 200 with an empty list.  The result is the rate map and the log.   *)
(***************************************************************************)
FundingExc == [kind |-> "exc", rate |-> 0]
FundingHttp == [kind |-> "http", rate |-> 0]
FundingEmpty == [kind |-> "empty", rate |-> 0]
FundingOk(r) == [kind |-> "ok", rate |-> r]

get_funding_rates(fr) ==
    [rates |-> [c \in {d \in SymbolSet : fr[d].kind = "ok"} |-> fr[c].rate],
     log |-> FlattenSeq([k \in 1..Len(SYMBOLS) |->
                CASE fr[SYMBOLS[k]].kind = "ok" ->
                        <<Entry("FUNDING_RATE", SYMBOLS[k], "", "rate")>>
                  [] fr[SYMBOLS[k]].kind = "exc" ->
                        <<Entry("API_ERROR", "Funding rate", "FAIL", "exception")>>
                  [] OTHER -> <<>>])]

strategy_funding_rate_carry(m, f, src, t, fr) ==
    LET got == get_funding_rates(fr)
        rates == got.rates
        short(c) == rates[c] > 5
        long(c) == rates[c] < -3
        make(c) ==
            Put(NewPick("funding", c, "funding_rate_carry",
                        IF short(c) THEN "SHORT" ELSE "LONG",
                        _confidence_score(f, m[c][2], funding_tech_bonus(rates[c])), m[c],
                        RoundMul(m[c][1], IF short(c) THEN 97 ELSE 103),
                        RoundMul(m[c][1], IF short(c) THEN 102 ELSE 98), 40, src, f, t),
                "funding_rate_pct", rates[c])
        ps == PicksOver(CoinsOf(rates),
                        LAMBDA c : c \in DOMAIN m /\ Usable(m[c]) /\ (short(c) \/ long(c)),
                        make)
    IN  IF DOMAIN rates = {}
        THEN StrategyReturn(<<>>, got.log
                \o <<Entry("STRATEGY_SKIP", "funding_rate_carry", "", "no funding rate data")>>)
        ELSE StrategyReturn(ps, got.log
                \o [k \in 1..Len(ps) |-> Entry("PICK_GENERATED", "funding_rate_carry", "", ps[k].symbol)]
                \o (IF ps = <<>>
                    THEN <<Entry("STRATEGY_SKIP", "funding_rate_carry", "", "rates in normal range")>>
                    ELSE <<>>))

(***************************************************************************)
(* get_klines against the answers kl of api.binance.com, one per coin.     *)
(* The candles themselves are not modelled: an "ok" answer says whether it *)
(* holds as many candles as asked for (full) and what the indicators over  *)
(* its closes are: RSI(14) in hundredths, whether the last close is below  *)
(* SMA(200), and whether EMA(12) has just crossed below EMA(50).           *)
(***************************************************************************)
KlinesExc == [kind |-> "exc", full |-> FALSE, rsi |-> 0, below |-> FALSE, cross |-> FALSE]
KlinesHttp == [kind |-> "http", full |-> FALSE, rsi |-> 0, below |-> FALSE, cross |-> FALSE]
KlinesOk(full, rsi, below, cross) ==
    [kind |-> "ok", full |-> full, rsi |-> rsi, below |-> below, cross |-> cross]

\* The entries get_klines logs for the coins cs, in order.
KlinesLog(cs, kl) ==
    FlattenSeq([k \in 1..Len(cs) |->
        IF kl[cs[k]].kind = "exc"
        THEN <<Entry("API_ERROR", "Klines", "FAIL", "exception")>>
        ELSE <<>>])

\* `if not klines or len(klines['closes']) < 201: continue` (51 for the EMAs)
KlinesUsable(k) == k.kind = "ok" /\ k.full

strategy_rsi_overbought_short(m, f, src, t, kl) ==
    LET cs == CoinsOf(m)
        fires(c) == KlinesUsable(kl[c]) /\ kl[c].rsi > 7000 /\ kl[c].below
        make(c) ==
            Put(NewPick("rsi_short", c, "rsi_overbought_short", "SHORT",
                        _confidence_score(f, m[c][2], rsi_tech_bonus(kl[c].rsi)), m[c],
                        RoundMul(m[c][1], 95), RoundMul(m[c][1], 103), 25, src, f, t),
                "rsi_14", kl[c].rsi)
        ps == PicksOver(cs, fires, make)
    IN  StrategyReturn(ps,
            FlattenSeq([k \in 1..Len(cs) |->
                IF kl[cs[k]].kind = "exc"
                THEN <<Entry("API_ERROR", "Klines", "FAIL", "exception")>>
                ELSE IF ~KlinesUsable(kl[cs[k]]) THEN <<>>
                ELSE IF fires(cs[k])
                THEN <<Entry("TECHNICAL", cs[k], "", "RSI SMA200"),
                       Entry("PICK_GENERATED", "rsi_overbought_short", "", cs[k])>>
                ELSE <<Entry("TECHNICAL", cs[k], "", "RSI SMA200"),
                       Entry("STRATEGY_SKIP", "rsi_overbought_short", "", cs[k])>>]))

strategy_ema_bearish_cross(m, f, src, t, kl) ==
    IF f > 40
    THEN StrategyReturn(<<>>, <<Entry("STRATEGY_SKIP", "ema_bearish_cross", "", "not fearful enough")>>)
    ELSE LET cs == CoinsOf(m)
             fires(c) == KlinesUsable(kl[c]) /\ kl[c].cross
             make(c) ==
                Put(NewPick("ema_bear", c, "ema_bearish_cross", "SHORT",
                            _confidence_score(f, m[c][2], ema_tech_bonus(kl[c].rsi)),
                            m[c], RoundMul(m[c][1], 94), RoundMul(m[c][1], 104), 20, src, f, t),
                    "rsi_14", kl[c].rsi)
             ps == PicksOver(cs, fires, make)
         IN  StrategyReturn(ps,
                FlattenSeq([k \in 1..Len(cs) |->
                    IF kl[cs[k]].kind = "exc"
                    THEN <<Entry("API_ERROR", "Klines", "FAIL", "exception")>>
                    ELSE IF ~KlinesUsable(kl[cs[k]]) THEN <<>>
                    ELSE IF fires(cs[k])
                    THEN <<Entry("TECHNICAL", cs[k], "", "EMA12 EMA50"),
                           Entry("PICK_GENERATED", "ema_bearish_cross", "", cs[k])>>
                    ELSE <<Entry("TECHNICAL", cs[k], "", "EMA12 EMA50")>>])
                \o (IF ps = <<>>
                    THEN <<Entry("STRATEGY_SKIP", "ema_bearish_cross", "", "no bearish EMA crosses")>>
                    ELSE <<>>))

\* ultimate_fallback: two hardcoded picks and the entry that announces them.
ultimate_fallback(f, t) ==
    StrategyReturn(
        <<[id |-> <<"ULTIMATE", "BTC", Minute(t)>>, symbol |-> "BTC",
           strategy |-> "ULTIMATE_FALLBACK", direction |-> "LONG", confidence |-> 50,
           entry_price |-> 65000000, tp_price |-> 71500000, sl_price |-> 61000000,
           position_pct |-> 20, timestamp_est |-> t],
          [id |-> <<"ULTIMATE", "ETH", Minute(t)>>, symbol |-> "ETH",
           strategy |-> "ULTIMATE_FALLBACK", direction |-> "LONG", confidence |-> 50,
           entry_price |-> 1900000, tp_price |-> 2100000, sl_price |-> 1750000,
           position_pct |-> 15, timestamp_est |-> t]>>,
        <<Entry("ULTIMATE_FALLBACK", "run", "", "All price APIs failed. Using hardcoded estimates.")>>)

(***************************************************************************)
(* run(), step 4: the candidates of the six strategies, one per            *)
(* symbol+direction (the most confident, the earliest on a tie), sorted by *)
(* confidence, the first eight.                                            *)
(***************************************************************************)
DirKey(p) == <<p.symbol, p.direction>>

\* best_by_key after the picks all[k..] were seen: keys in insertion order.
RECURSIVE best_by_key(_, _, _, _)
best_by_key(all, k, keys, best) ==
    IF k > Len(all) THEN [j \in 1..Len(keys) |-> best[keys[j]]]
    ELSE LET p == all[k]
             key == DirKey(p)
         IN  IF key \notin DOMAIN best
             THEN best_by_key(all, k + 1, Append(keys, key), (key :> p) @@ best)
             ELSE IF p.confidence > best[key].confidence
             THEN best_by_key(all, k + 1, keys, (key :> p) @@ best)
             ELSE best_by_key(all, k + 1, keys, best)

\* p put into the sequence ps, sorted by falling confidence, behind the
\* elements that are at least as confident (sorted(.., reverse=True) is stable).
InsertByConfidence(ps, p) ==
    LET n == Cardinality({j \in 1..Len(ps) : ps[j].confidence >= p.confidence})
    IN  SubSeq(ps, 1, n) \o <<p>> \o SubSeq(ps, n + 1, Len(ps))

RECURSIVE SortByConfidence(_)
SortByConfidence(ps) ==
    IF ps = <<>> THEN <<>>
    ELSE InsertByConfidence(SortByConfidence(SubSeq(ps, 1, Len(ps) - 1)), ps[Len(ps)])

FirstN(ps, n) == SubSeq(ps, 1, Min(n, Len(ps)))

LastN(ps, n) == SubSeq(ps, Len(ps) - Min(n, Len(ps)) + 1, Len(ps))

\* A deduplication that keeps the first candidate of every key, whatever its
\* confidence.
dedup_first_seen(all_picks) ==
    LET first == {i \in 1..Len(all_picks) :
                     \A j \in 1..(i - 1) : DirKey(all_picks[j]) # DirKey(all_picks[i])}
        kept == SelectSeq([i \in 1..Len(all_picks) |-> <<i, all_picks[i]>>],
                          LAMBDA e : e[1] \in first)
    IN  FirstN(SortByConfidence([k \in 1..Len(kept) |-> kept[k][2]]), 8)

\* Lines 1113-1120: self.picks, made of the candidates all_picks.
dedup(all_picks) ==
    FirstN(SortByConfidence(best_by_key(all_picks, 1, <<>>, NoneMap)), 8)

\* The picks of a run with prices m, and the entries logged on the way.
run_strategies(m, f, src, t, n) ==
    LET s1 == strategy_extreme_fear(m, f, src, t)
        s2 == strategy_crash_reversal(m, f, src, t)
        s3 == strategy_momentum_breakout(m, f, src, t)
        s4 == strategy_funding_rate_carry(m, f, src, t, n.funding)
        s5 == strategy_rsi_overbought_short(m, f, src, t, n.klines)
        s6 == strategy_ema_bearish_cross(m, f, src, t, n.klines)
        all_picks == s1.picks \o s2.picks \o s3.picks \o s4.picks \o s5.picks \o s6.picks
        final == dedup(all_picks)
    IN  StrategyReturn(final,
            <<Entry("PHASE", "run", "", "Running 6 strategies")>>
            \o s1.log \o s2.log \o s3.log \o s4.log \o s5.log \o s6.log
            \o (IF final = <<>>
                THEN <<Entry("NO_PICKS", "run", "", "No strategies triggered")>>
                ELSE <<>>))

(***************************************************************************)
(* _track_performance.                                                     *)
(***************************************************************************)
IsShort(pick) == Get(pick, "direction", "LONG") = "SHORT"

\* A P&L percent that takes every pick for a LONG.
PnlPctLongOnly(pick, current_price) ==
    RoundScaled(current_price - pick.entry_price, 10000, pick.entry_price)

\* Lines 937-941: the P&L percent, in hundredths of a percent.
PnlPct(pick, current_price) ==
    IF IsShort(pick)
    THEN RoundScaled(pick.entry_price - current_price, 10000, pick.entry_price)
    ELSE RoundScaled(current_price - pick.entry_price, 10000, pick.entry_price)

\* Line 943: the P&L in cents on the position.
PnlDollar(pick, pnl_pct) ==
    RoundScaled(pnl_pct * Get(pick, "position_pct", 30), CAPITAL_BASE, 100000)

\* A take-profit test that takes every pick for a LONG.
TpHitLongOnly(pick, current_price) == current_price >= pick.tp_price

\* Lines 951-956.
TpHit(pick, current_price) ==
    IF IsShort(pick)
    THEN current_price <= pick.tp_price
    ELSE current_price >= pick.tp_price

SlHit(pick, current_price) ==
    IF IsShort(pick)
    THEN current_price >= pick.sl_price
    ELSE current_price <= pick.sl_price

\* A stamping that adds the P&L to the one the pick already carries.
StampedCumulative(pick, current_price, t) ==
    LET pnl_pct == Get(pick, "unrealized_pnl_pct", 0) + PnlPct(pick, current_price)
    IN  Put(Put(Put(Put(pick,
            "current_price", Round2(current_price)),
            "unrealized_pnl_pct", pnl_pct),
            "unrealized_pnl_dollar", PnlDollar(pick, pnl_pct)),
            "last_checked_est", t)

\* Lines 945-948: the tracking keys stamped on a pick.
Stamped(pick, current_price, t) ==
    LET pnl_pct == PnlPct(pick, current_price)
    IN  Put(Put(Put(Put(pick,
            "current_price", Round2(current_price)),
            "unrealized_pnl_pct", pnl_pct),
            "unrealized_pnl_dollar", PnlDollar(pick, pnl_pct)),
            "last_checked_est", t)

\* A closing that records no exit_reason.
ClosedNoReason(pick, status, reason, current_price, t) ==
    Put(Put(Put(Put(Put(pick,
        "status", status),
        "exit_price", Round2(current_price)),
        "exit_time_est", t),
        "realized_pnl_pct", pick.unrealized_pnl_pct),
        "realized_pnl_dollar", pick.unrealized_pnl_dollar)

\* Lines 959-964 and 968-973: the closing keys.
Closed(pick, status, reason, current_price, t) ==
    Put(Put(Put(Put(Put(Put(pick,
        "status", status),
        "exit_price", Round2(current_price)),
        "exit_reason", reason),
        "exit_time_est", t),
        "realized_pnl_pct", pick.unrealized_pnl_pct),
        "realized_pnl_dollar", pick.unrealized_pnl_dollar)

\* An evaluation that tests the stop-loss before the take-profit.
EvaluateStopFirst(pick, current_price, t) ==
    LET p == Stamped(pick, current_price, t)
    IN  IF SlHit(pick, current_price) THEN Closed(p, "CLOSED_SL", "SL_HIT", current_price, t)
        ELSE IF TpHit(pick, current_price) THEN Closed(p, "CLOSED_TP", "TP_HIT", current_price, t)
        ELSE Put(p, "status", "ACTIVE")

\* Lines 930-979 for one pick whose symbol has a price: the pick afterwards.
Evaluate(pick, current_price, t) ==
    LET p == Stamped(pick, current_price, t)
    IN  IF TpHit(pick, current_price) THEN Closed(p, "CLOSED_TP", "TP_HIT", current_price, t)
        ELSE IF SlHit(pick, current_price) THEN Closed(p, "CLOSED_SL", "SL_HIT", current_price, t)
        ELSE Put(p, "status", "ACTIVE")

\* A tracking that logs every evaluated pick as PICK_TRACKED, closed or not.
TrackEntryTrackedOnly(p) == Entry("PICK_TRACKED", p.symbol, "", "unrealized")

\* The entry logged for an evaluated pick.
TrackEntry(p) ==
    CASE p.status = "CLOSED_TP" -> Entry("PICK_CLOSED", p.symbol, "WIN", "HIT TP")
      [] p.status = "CLOSED_SL" -> Entry("PICK_CLOSED", p.symbol, "LOSS", "HIT SL")
      [] OTHER -> Entry("PICK_TRACKED", p.symbol, "", "unrealized")

\* The for loop of _track_performance from pick k on.  raised: the division
\* by entry raised ZeroDivisionError, which nothing catches.
RECURSIVE track_loop(_, _, _, _, _, _, _)
track_loop(active, k, m, t, still_active, closed, log) ==
    IF k > Len(active)
    THEN [still_active |-> still_active, newly_closed |-> closed, log |-> log, raised |-> FALSE]
    ELSE LET pick == active[k]
         IN  IF pick.symbol \notin DOMAIN m
             THEN track_loop(active, k + 1, m, t, Append(still_active, pick), closed, log)
             ELSE IF pick.entry_price = 0
             THEN [still_active |-> still_active, newly_closed |-> closed, log |-> log,
                   raised |-> TRUE]
             ELSE LET p == Evaluate(pick, m[pick.symbol][1], t)
                  IN  IF p.status = "ACTIVE"
                      THEN track_loop(active, k + 1, m, t, Append(still_active, p), closed,
                                      Append(log, TrackEntry(p)))
                      ELSE track_loop(active, k + 1, m, t, still_active, Append(closed, p),
                                      Append(log, TrackEntry(p)))

\* What a file holds that json.load cannot parse: a write cut short, or
\* anything else that is not a JSON document.
Unreadable == <<[unreadable |-> TRUE]>>

\* _load_active_picks and _load_closed_picks on the contents of the file (an
\* empty sequence also stands for no file): a file that cannot be read or
\* parsed gives [] like a missing one.
\* A loading that starts from no active picks.
_load_active_picks_none(file) == <<>>

_load_active_picks(file) == IF file = Unreadable THEN <<>> ELSE file

_load_closed_picks(file) == IF file = Unreadable THEN <<>> ELSE file

\* A tracking pass that keeps only the picks the snapshot prices.
_track_performance_priced_only(active, m, t) ==
    track_loop(SelectSeq(_load_active_picks(active), LAMBDA p : p.symbol \in DOMAIN m),
               1, m, t, <<>>, <<>>, <<>>)

\* A tracking pass that leaves the picks it closes among the active ones.
_track_performance_keeps_closed(active, m, t) ==
    LET r == track_loop(_load_active_picks(active), 1, m, t, <<>>, <<>>, <<>>)
    IN  [r EXCEPT !.still_active = r.still_active \o r.newly_closed]

\* _track_performance over the contents of active_picks.json.
_track_performance(active, m, t) ==
    track_loop(_load_active_picks(active), 1, m, t, <<>>, <<>>, <<>>)

\* A history that keeps its oldest 1000 entries instead of the newest.
_save_closed_picks_oldest(closed, closed_now) ==
    FirstN(_load_closed_picks(closed) \o closed_now, 1000)

\* _save_closed_picks: the new content of closed_picks.json.
_save_closed_picks(closed, closed_now) ==
    LastN(_load_closed_picks(closed) \o closed_now, 1000)

(***************************************************************************)
(* run(), step 5: the merge of self.picks into active_picks.  The pick     *)
(* appended is the dict held by self.picks, so the status lands there too. *)
(***************************************************************************)
StratKey(p) == <<p.symbol, p.strategy>>

\* sum(p.get(key, 0) for p in ps), in cents, added up by halves (the order
\* makes no difference to whole cents).
RECURSIVE SumOf(_, _)
SumOf(ps, key) ==
    IF ps = <<>> THEN 0
    ELSE IF Len(ps) = 1 THEN Get(ps[1], key, 0)
    ELSE SumOf(SubSeq(ps, 1, Len(ps) \div 2), key)
         + SumOf(SubSeq(ps, Len(ps) \div 2 + 1, Len(ps)), key)

\* sum(1 for p in ps if p.get('exit_reason') == reason)
CountExit(ps, reason) ==
    Cardinality({k \in 1..Len(ps) : Get(ps[k], "exit_reason", "None") = reason})

\* Statistics whose win rate is the fraction wins / total_closed, not the
\* percentage.
_compute_performance_stats_fraction(active, closed) ==
    [total_closed |-> Len(closed),
     wins |-> CountExit(closed, "TP_HIT"),
     losses |-> CountExit(closed, "SL_HIT"),
     win_rate_pct |-> IF Len(closed) > 0
                      THEN RoundDiv(CountExit(closed, "TP_HIT") * 10, Len(closed))
                      ELSE 0,
     total_realized_pnl_dollar |-> SumOf(closed, "realized_pnl_dollar"),
     total_unrealized_pnl_dollar |-> SumOf(active, "unrealized_pnl_dollar"),
     active_picks_count |-> Len(active)]

\* _compute_performance_stats.  win_rate_pct is in tenths of a percent
\* (round(.., 1)), the two totals are in cents (round(.., 2)).
_compute_performance_stats(active, closed) ==
    [total_closed |-> Len(closed),
     wins |-> CountExit(closed, "TP_HIT"),
     losses |-> CountExit(closed, "SL_HIT"),
     win_rate_pct |-> IF Len(closed) > 0
                      THEN RoundDiv(CountExit(closed, "TP_HIT") * 1000, Len(closed))
                      ELSE 0,
     total_realized_pnl_dollar |-> SumOf(closed, "realized_pnl_dollar"),
     total_unrealized_pnl_dollar |-> SumOf(active, "unrealized_pnl_dollar"),
     active_picks_count |-> Len(active)]

\* save: metadata.strategies_evaluated
strategies_evaluated ==
    {"extreme_fear", "crash_reversal", "momentum_breakout",
     "funding_rate_carry", "rsi_overbought_short", "ema_bearish_cross"}

\* The value of result while run() has not returned.
NoResult == [written |-> FALSE]

\* A report whose fallback flag looks at the active picks, not at self.picks.
save_flag_from_active(ps, active, closed, perf_stats) ==
    [written |-> TRUE,
     performance |-> perf_stats,
     active_picks |-> active,
     closed_picks_recent |-> LastN(closed, 20),
     pick_count |-> Len(ps),
     fallback_activated |->
        \E k \in 1..Len(active) : active[k].strategy = "ULTIMATE_FALLBACK"]

\* save: the report written to docs/picks.json and returned, as far as its
\* active and closed picks, its performance block and its metadata go.
save(ps, active, closed, perf_stats) ==
    [written |-> TRUE,
     performance |-> perf_stats,
     active_picks |-> active,
     closed_picks_recent |-> LastN(closed, 20),
     pick_count |-> Len(ps),
     fallback_activated |-> \E k \in 1..Len(ps) : ps[k].strategy = "ULTIMATE_FALLBACK"]

RECURSIVE merge_loop(_, _, _, _, _)
merge_loop(ps, k, active, existing_keys, log) ==
    IF k > Len(ps) THEN [picks |-> ps, active_picks |-> active, log |-> log]
    ELSE LET key == StratKey(ps[k])
         IN  IF key \notin existing_keys
             THEN LET pick == Put(ps[k], "status", "ACTIVE")
                  IN  merge_loop([ps EXCEPT ![k] = pick], k + 1, Append(active, pick),
                                 existing_keys \cup {key},
                                 Append(log, Entry("PICK_ACTIVATED", pick.symbol, "", pick.strategy)))
             ELSE merge_loop(ps, k + 1, active, existing_keys, log)

\* A merge that appends every pick, whatever is active already.
merge_picks_unchecked(ps, active) ==
    LET marked == [k \in 1..Len(ps) |-> Put(ps[k], "status", "ACTIVE")]
    IN  [picks |-> marked, active_picks |-> active \o marked,
         log |-> [k \in 1..Len(ps) |->
                    Entry("PICK_ACTIVATED", ps[k].symbol, "", ps[k].strategy)]]

\* A merge in which a candidate takes the place of the active pick of its key.
merge_picks_overwrite(ps, active) ==
    LET rival(a) == {k \in 1..Len(ps) : StratKey(ps[k]) = StratKey(a)}
        replaced == [j \in 1..Len(active) |->
                        IF rival(active[j]) = {} THEN active[j]
                        ELSE Put(ps[CHOOSE k \in rival(active[j]) : TRUE], "status", "ACTIVE")]
    IN  merge_loop(ps, 1, replaced, {StratKey(active[j]) : j \in 1..Len(active)}, <<>>)

\* A merge that appends the candidates without marking them ACTIVE.
merge_picks_unmarked(ps, active) ==
    LET r == merge_loop(ps, 1, active, {StratKey(active[j]) : j \in 1..Len(active)}, <<>>)
        unmarked(p) == [x \in (DOMAIN p) \ {"status"} |-> p[x]]
    IN  [r EXCEPT !.active_picks =
            [k \in 1..Len(r.active_picks) |->
                IF k > Len(active) THEN unmarked(r.active_picks[k]) ELSE r.active_picks[k]]]

merge_picks(ps, active) ==
    merge_loop(ps, 1, active, {StratKey(active[j]) : j \in 1..Len(active)}, <<>>)

(***************************************************************************)
(* The answers of the network.                                             *)
(***************************************************************************)
AllCoins(r) == [c \in SymbolSet |-> r]

\* The answers of the five price services and of the sentiment service, with
\* no funding rates and no candles to be had.
Net(b, g, c, p, l, f) ==
    [binance |-> b, coingecko |-> g, cryptocompare |-> c, coincap |-> p,
     coinlore |-> l, fng |-> f,
     funding |-> AllCoins(FundingHttp), klines |-> AllCoins(KlinesHttp)]

\* Every adapter raises, and so does the sentiment service.
NetDown == Net(AllCoins(CoinExc), BulkExc, BulkExc, AllCoins(CoinExc), BulkExc, FngExc)

\* The answers explored for the quote resolver: every failure kind of every
\* adapter, full and partial maps, a zero and a negative price.
RichCoinResps == {CoinExc, CoinHttp, CoinOk(<<100000, 0>>)}

RichCoinGecko ==
    {BulkExc, BulkHttp, BulkOk(NoneMap),
     BulkOk("BTC" :> <<100000, 0>>),
     BulkOk("BTC" :> <<0, 0>>),
     BulkOk(("BTC" :> <<100000, 0>>) @@ ("ETH" :> <<0, 0>>))}

RichCryptoCompare ==
    {BulkExc, BulkHttp, BulkOk(NoneMap), BulkOk("ETH" :> <<100000, 0>>)}

RichCoinLore ==
    {BulkExc, BulkHttp, BulkOk(NoneMap), BulkOk("BTC" :> <<100000, 0>>),
     BulkOk("ETH" :> <<-5000, 0>>)}

RichNets ==
    {Net(b, g, c, p, l, FngExc) :
        b \in [SymbolSet -> RichCoinResps], g \in RichCoinGecko,
        c \in RichCryptoCompare, p \in [SymbolSet -> RichCoinResps],
        l \in RichCoinLore}

\* The answers explored for the sentiment resolver: every failure kind and
\* every index value, with two values outside 0..100.
FngNets ==
    {[NetDown EXCEPT !.fng = f] :
        f \in {FngExc, FngHttp, FngMalformed} \cup {FngOk(v) : v \in -1..101}}

(***************************************************************************)
(* The state of a process that has just entered run(): the constructor     *)
(* made self.picks and self.audit, and run logged RUN_START.               *)
(***************************************************************************)
RunEntered ==
    /\ pc = "fear_greed"
    /\ fg = 0
    /\ fg_source = "None"
    /\ fng_requests = 0
    /\ api_calls = <<>>
    /\ prices = NoneMap
    /\ source = "None"
    /\ audit = <<Entry("RUN_START", "run", "", "CLAWS OF DOOM")>>
    /\ picks = <<>>
    /\ active_picks = <<>>
    /\ newly_closed = <<>>
    /\ result = NoResult
    /\ discord = <<>>

\* run(), step 1: fg, fg_source = self.get_fear_greed(), and the PHASE entry
\* logged before get_prices is entered.
GetFearGreed ==
    /\ pc = "fear_greed"
    /\ LET r == get_fear_greed(net.fng)
       IN  /\ fg' = r.value
           /\ fg_source' = r.source
           /\ audit' = audit \o r.log \o <<Entry("PHASE", "run", "", "Fetching prices")>>
    /\ fng_requests' = fng_requests + 1
    /\ pc' = "get_prices"
    /\ UNCHANGED <<discord, result, net, now, runs, api_calls, prices, source, picks,
                   active_picks, newly_closed, active_file, closed_file>>

\* A resolver that answers with last-known prices of its own when every
\* adapter failed.
ExhaustedWithEstimates ==
    ApiReturn("BTC" :> <<65000000, 0>>, "estimated",
              <<Entry("PRICES_FAILED", "get_prices", "", "All 5 price APIs failed")>>)

\* What get_prices returns, and logs, once the loop has run out of adapters.
Exhausted ==
    ApiReturn(NoneMap, "None",
              <<Entry("PRICES_FAILED", "get_prices", "", "All 5 price APIs failed")>>)

\* run(), step 2: one iteration of get_prices' loop over apis; the iteration
\* that finds prices returns them, the last one that finds none logs
\* PRICES_FAILED and returns (None, None).
GetPricesIter ==
    /\ pc = "get_prices"
    /\ ApiIndex(api_calls) \in 1..Len(apis)
    /\ LET i == ApiIndex(api_calls)
           a == apis[i]
           r == ApiCall(a, net)
       IN  /\ api_calls' = Append(api_calls, a)
           /\ IF Truthy(r.prices)
              THEN /\ prices' = r.prices
                   /\ source' = r.source
                   /\ audit' = audit \o r.log
                                \o <<Entry("PRICES_RESOLVED", r.source, "", "Source")>>
                   /\ pc' = "track"
              ELSE IF i = Len(apis)
              THEN /\ prices' = Exhausted.prices
                   /\ source' = Exhausted.source
                   /\ audit' = audit \o r.log \o Exhausted.log
                   /\ pc' = "track"
              ELSE /\ audit' = audit \o r.log
                   /\ UNCHANGED <<prices, source, pc>>
    /\ UNCHANGED <<discord, result, net, now, runs, fg, fg_source, fng_requests, picks,
                   active_picks, newly_closed, active_file, closed_file>>

\* run(), step 3: the active picks are checked against the prices and the
\* closed ones appended to closed_picks.json; without prices the active
\* picks are loaded as they are.
TrackPerformance ==
    /\ pc = "track"
    /\ IF Truthy(prices)
       THEN \E r \in {_track_performance(active_file, prices, now)} :
                /\ ~r.raised
                /\ active_picks' = r.still_active
                /\ newly_closed' = r.newly_closed
                /\ closed_file' = _save_closed_picks(closed_file, r.newly_closed)
                /\ audit' = audit
                            \o <<Entry("PHASE", "run", "", "Tracking active picks")>>
                            \o r.log
                            \o (IF r.newly_closed # <<>>
                                THEN <<Entry("CLOSED_SAVED", "run", "", "picks closed")>>
                                ELSE <<>>)
       ELSE /\ active_picks' = _load_active_picks(active_file)
            /\ newly_closed' = <<>>
            /\ audit' = Append(audit, Entry("PHASE", "run", "", "Tracking active picks"))
            /\ UNCHANGED closed_file
    /\ pc' = "strategies"
    /\ UNCHANGED <<discord, result, net, now, runs, fg, fg_source, fng_requests, api_calls, prices,
                   source, picks, active_file>>

\* run(), step 3, when _track_performance raises: the process dies with the
\* traceback, and neither file has been written.
TrackRaises ==
    /\ pc = "track"
    /\ Truthy(prices)
    /\ \E r \in {_track_performance(active_file, prices, now)} :
           /\ r.raised
           /\ audit' = audit
                       \o <<Entry("PHASE", "run", "", "Tracking active picks")>>
                       \o r.log
    /\ pc' = "crashed"
    /\ UNCHANGED <<discord, result, net, now, runs, fg, fg_source, fng_requests, api_calls, prices,
                   source, picks, active_picks, newly_closed, active_file, closed_file>>

\* `print(f"  {coin}: ${price:,.2f} ({change:+.1f}%)")` raises TypeError on a
\* change that is None.
PrintRaises(m) == \E c \in DOMAIN m : m[c][2] = JsonNull

\* run(), step 4: the prices are printed and the strategies run; without
\* prices the ultimate fallback supplies the picks.
GeneratePicks ==
    /\ pc = "strategies"
    /\ IF Truthy(prices)
       THEN /\ ~PrintRaises(prices)
            /\ \E r \in {run_strategies(prices, fg, source, now, net)} :
                   /\ picks' = r.picks
                   /\ audit' = audit \o r.log
                               \o <<Entry("PICKS_FINAL", "run", "", "picks generated")>>
       ELSE \E r \in {ultimate_fallback(fg, now)} :
                /\ picks' = r.picks
                /\ audit' = audit
                            \o <<Entry("FALLBACK", "run", "", "Activating ultimate fallback")>>
                            \o r.log
                            \o <<Entry("PICKS_FINAL", "run", "", "picks generated")>>
    /\ pc' = "merge"
    /\ UNCHANGED <<discord, result, net, now, runs, fg, fg_source, fng_requests, api_calls, prices,
                   source, active_picks, newly_closed, active_file, closed_file>>

\* run(), step 4, when printing the prices raises: the process dies after
\* closed_picks.json was written and before active_picks.json is.
ReportRaises ==
    /\ pc = "strategies"
    /\ Truthy(prices)
    /\ PrintRaises(prices)
    /\ pc' = "crashed"
    /\ UNCHANGED <<discord, result, net, now, runs, fg, fg_source, fng_requests, api_calls, prices,
                   source, audit, picks, active_picks, newly_closed, active_file,
                   closed_file>>

\* run(), steps 5 to 7: the picks are merged into the active picks, which are
\* written to active_picks.json, and the run is reported.  (picks_history.json
\* and picks.json are not part of the state.)
MergeAndSave ==
    /\ pc = "merge"
    /\ \E r \in {merge_picks(picks, active_picks)} :
           /\ picks' = r.picks
           /\ active_picks' = r.active_picks
           /\ active_file' = r.active_picks
           /\ audit' = audit \o r.log
                       \o <<Entry("HISTORY_SAVED", "run", "", "entries in history"),
                            Entry("PERFORMANCE", "run", "", "stats"),
                            Entry("RUN_COMPLETE", "run", "", "picks saved")>>
           /\ result' = save(r.picks, r.active_picks, _load_closed_picks(closed_file),
                             _compute_performance_stats(r.active_picks,
                                                        _load_closed_picks(closed_file)))
    /\ pc' = "done"
    /\ UNCHANGED <<discord, net, now, runs, fg, fg_source, fng_requests, api_calls, prices,
                   source, newly_closed, closed_file>>

\* The process is stopped (killed, or the disk is full) while
\* _save_closed_picks writes: open(path, 'w') has truncated closed_picks.json
\* and json.dump has not finished.
SaveClosedInterrupted ==
    /\ pc = "track"
    /\ Truthy(prices)
    /\ ~_track_performance(active_file, prices, now).raised
    /\ closed_file' = Unreadable
    /\ pc' = "crashed"
    /\ UNCHANGED <<discord, result, net, now, runs, fg, fg_source, fng_requests, api_calls, prices,
                   source, audit, picks, active_picks, newly_closed, active_file>>

\* The same while _save_active_picks writes active_picks.json.
SaveActiveInterrupted ==
    /\ pc = "merge"
    /\ active_file' = Unreadable
    /\ pc' = "crashed"
    /\ UNCHANGED <<discord, result, net, now, runs, fg, fg_source, fng_requests, api_calls, prices,
                   source, audit, picks, active_picks, newly_closed, closed_file>>

\* get_prices as a whole from the adapter at position i on: what it returns.
RECURSIVE get_prices_from(_, _)
get_prices_from(n, i) ==
    IF i > Len(apis) THEN Exhausted
    ELSE LET r == ApiCall(apis[i], n)
         IN  IF Truthy(r.prices) THEN r ELSE get_prices_from(n, i + 1)

\* What a whole run of another process at time t, finding the answers n,
\* makes of the two files: nothing if it dies in _track_performance, a new
\* closed_picks.json alone if it dies printing the prices, and both files
\* otherwise.
other_run(afile, cfile, n, t) ==
    LET f == get_fear_greed(n.fng).value
        got == get_prices_from(n, 1)
        tracked == IF Truthy(got.prices)
                   THEN _track_performance(afile, got.prices, t)
                   ELSE [still_active |-> _load_active_picks(afile), newly_closed |-> <<>>,
                         log |-> <<>>, raised |-> FALSE]
        cands == IF Truthy(got.prices)
                 THEN run_strategies(got.prices, f, got.source, t, n).picks
                 ELSE ultimate_fallback(f, t).picks
    IN  IF tracked.raised THEN [active |-> afile, closed |-> cfile]
        ELSE IF Truthy(got.prices) /\ PrintRaises(got.prices)
        THEN [active |-> afile, closed |-> _save_closed_picks(cfile, tracked.newly_closed)]
        ELSE [active |-> merge_picks(cands, tracked.still_active).active_picks,
              closed |-> IF Truthy(got.prices)
                         THEN _save_closed_picks(cfile, tracked.newly_closed)
                         ELSE cfile]

(***************************************************************************)
(* The quote resolver alone: one process, every combination of answers.    *)
(***************************************************************************)
InitResolve ==
    /\ RunEntered
    /\ net \in RichNets
    /\ now = 1
    /\ runs = 1
    /\ active_file = <<>>
    /\ closed_file = <<>>

NextResolve ==
    \/ GetFearGreed
    \/ GetPricesIter
    \/ TrackPerformance
    \/ GeneratePicks
    \/ MergeAndSave

SpecResolve == InitResolve /\ [][NextResolve]_vars

(***************************************************************************)
(* The sentiment resolver alone.                                           *)
(***************************************************************************)
InitSentiment ==
    /\ RunEntered
    /\ net \in FngNets
    /\ now = 1
    /\ runs = 1
    /\ active_file = <<>>
    /\ closed_file = <<>>

NextSentiment == GetFearGreed

SpecSentiment == InitSentiment /\ [][NextSentiment]_vars

(***************************************************************************)
(* The engine over several runs.  Each run is a new process; what it finds *)
(* on the network is one of a few situations.                              *)
(***************************************************************************)
\* Binance answers the coins of m with their quotes and the others with a 404.
BinanceOf(m) == [c \in SymbolSet |-> IF c \in DOMAIN m THEN CoinOk(m[c]) ELSE CoinHttp]

ViaBinance(m, f) == Net(BinanceOf(m), BulkExc, BulkExc, AllCoins(CoinExc), BulkExc, f)

ViaCoinGecko(m, f) == Net(AllCoins(CoinExc), BulkOk(m), BulkExc, AllCoins(CoinExc), BulkExc, f)

LeanNets ==
    {\* extreme fear, BTC down 12% on the day
     ViaBinance(("BTC" :> <<100000, -12>>) @@ ("ETH" :> <<1000, 0>>), FngOk(10)),
     \* greed, BTC up 6% at $106, nothing on ETH
     ViaBinance("BTC" :> <<106000, 6>>, FngOk(60)),
     \* BTC at $95, the sentiment service down
     ViaBinance("BTC" :> <<95000, 0>>, FngExc),
     \* BTC at $100.50
     ViaBinance("BTC" :> <<100500, 0>>, FngOk(60)),
     \* BTC at $100 with a funding rate of +0.06%
     [ViaBinance("BTC" :> <<100000, 0>>, FngOk(60))
        EXCEPT !.funding = [AllCoins(FundingEmpty) EXCEPT !["BTC"] = FundingOk(6)]],
     \* BTC at $97 and at $102
     ViaBinance("BTC" :> <<97000, 0>>, FngOk(60)),
     ViaBinance("BTC" :> <<102000, 0>>, FngOk(60)),
     \* nothing answers
     NetDown,
     \* Binance down, CoinGecko without a 24h change for BTC
     ViaCoinGecko("BTC" :> <<106000, JsonNull>>, FngOk(60)),
     \* ETH quoted at $0.004 and at $0.01, in extreme fear
     ViaBinance("ETH" :> <<4, 0>>, FngOk(10)),
     ViaBinance("ETH" :> <<10, 0>>, FngOk(10)),
     \* fear, BTC overbought below its SMA(200) with a fresh bearish cross
     [ViaBinance("BTC" :> <<100000, 0>>, FngOk(30))
        EXCEPT !.klines = [AllCoins(KlinesExc) EXCEPT
                              !["BTC"] = KlinesOk(TRUE, 7600, TRUE, TRUE)]]}

Init ==
    /\ pc = "idle"
    /\ net = NetDown
    /\ now = 0
    /\ runs = 0
    /\ fg = 0
    /\ fg_source = "None"
    /\ fng_requests = 0
    /\ api_calls = <<>>
    /\ prices = NoneMap
    /\ source = "None"
    /\ audit = <<>>
    /\ picks = <<>>
    /\ active_picks = <<>>
    /\ newly_closed = <<>>
    /\ active_file = <<>>
    /\ closed_file = <<>>
    /\ result = NoResult
    /\ discord = <<>>

\* The scheduler starts the next process once the last one has ended.
NewRun ==
    /\ pc \in {"idle", "done", "notified", "crashed"}
    /\ runs < MaxRuns
    /\ runs' = runs + 1
    /\ now' = now + 1
    /\ net' \in LeanNets
    /\ pc' = "fear_greed"
    /\ fg' = 0
    /\ fg_source' = "None"
    /\ fng_requests' = 0
    /\ api_calls' = <<>>
    /\ prices' = NoneMap
    /\ source' = "None"
    /\ audit' = <<Entry("RUN_START", "run", "", "CLAWS OF DOOM")>>
    /\ picks' = <<>>
    /\ active_picks' = <<>>
    /\ newly_closed' = <<>>
    /\ result' = NoResult
    /\ UNCHANGED <<discord, active_file, closed_file>>

Next ==
    \/ NewRun
    \/ GetFearGreed
    \/ GetPricesIter
    \/ TrackPerformance
    \/ TrackRaises
    \/ GeneratePicks
    \/ ReportRaises
    \/ MergeAndSave

Spec == Init /\ [][Next]_vars

\* A step of the running process.
RunStep ==
    \/ GetFearGreed
    \/ GetPricesIter
    \/ TrackPerformance
    \/ TrackRaises
    \/ GeneratePicks
    \/ ReportRaises
    \/ MergeAndSave

NextLive ==
    \/ NewRun
    \/ RunStep

\* A step of a process that holds no prices: it has not asked yet, or it is
\* asking, or every adapter has failed.  Nothing in run() waits (every
\* request has a timeout and every loop is over a finite list), so a process
\* that can take such a step takes it.
NoPricesStep ==
    /\ ~Truthy(prices)
    /\ RunStep

SpecLive == Init /\ [][NextLive]_vars /\ WF_vars(NoPricesStep)

(***************************************************************************)
(* The merge of run() alone, on lists of candidates that may repeat a key. *)
(***************************************************************************)
\* How many candidates a list holds at most.
MaxCandidates == 3

\* Candidates of extreme_fear: two for BTC, quoted at $100 and at $95, and
\* one for ETH.
CandidatePool ==
    {NewPick("fear", "BTC", "extreme_fear", "LONG", 70, <<100000, -12>>, 106000, 95000, 35,
             "binance", 10, 1),
     NewPick("fear", "BTC", "extreme_fear", "LONG", 64, <<95000, 0>>, 100700, 90250, 35,
             "binance", 10, 1),
     NewPick("fear", "ETH", "extreme_fear", "LONG", 64, <<1000, 0>>, 1060, 950, 35,
             "binance", 10, 1)}

CandidateLists == UNION {[1..n -> CandidatePool] : n \in 0..MaxCandidates}

\* The tracked picks the merge starts from: none, or a BTC pick of a run
\* before.
TrackedBefore ==
    {<<>>,
     <<Put(NewPick("fear", "BTC", "extreme_fear", "LONG", 55, <<90000, 0>>, 95400, 85500, 35,
                   "binance", 25, 0), "status", "ACTIVE")>>}

InitMerge ==
    /\ pc = "merge"
    /\ net = NetDown
    /\ now = 1
    /\ runs = 1
    /\ fg = 10
    /\ fg_source = "alternative.me"
    /\ fng_requests = 1
    /\ api_calls = <<"binance">>
    /\ prices = ("BTC" :> <<100000, -12>>)
    /\ source = "binance"
    /\ audit = <<Entry("RUN_START", "run", "", "CLAWS OF DOOM")>>
    /\ picks \in CandidateLists
    /\ active_picks \in TrackedBefore
    /\ newly_closed = <<>>
    /\ active_file = active_picks
    /\ closed_file = <<>>
    /\ result = NoResult
    /\ discord = <<>>

NextMerge == MergeAndSave

SpecMerge == InitMerge /\ [][NextMerge]_vars

(***************************************************************************)
(* Two runs in a row that find the same answers on the network, over       *)
(* active picks of an earlier run.                                         *)
(***************************************************************************)
\* Picks of a run at time 0 with BTC at $100: extreme_fear and
\* funding_rate_carry, as the merge wrote them.
SeedLong ==
    Put(NewPick("fear", "BTC", "extreme_fear", "LONG", 70, <<100000, -12>>, 106000, 95000, 35,
                "binance", 10, 0), "status", "ACTIVE")

SeedShort ==
    Put(Put(NewPick("funding", "BTC", "funding_rate_carry", "SHORT", 58, <<100000, 0>>, 97000,
                    102000, 40, "binance", 60, 0), "funding_rate_pct", 6), "status", "ACTIVE")

SeedActive == {<<>>, <<SeedLong>>, <<SeedShort>>, <<SeedLong, SeedShort>>}

InitTwice ==
    /\ RunEntered
    /\ net \in LeanNets
    /\ now = 1
    /\ runs = 1
    /\ active_file \in SeedActive
    /\ closed_file = <<>>

\* The scheduler starts a second process after the first has completed, and
\* the network answers as it did.
Rerun ==
    /\ pc = "done"
    /\ runs = 1
    /\ runs' = 2
    /\ now' = now + 1
    /\ pc' = "fear_greed"
    /\ fg' = 0
    /\ fg_source' = "None"
    /\ fng_requests' = 0
    /\ api_calls' = <<>>
    /\ prices' = NoneMap
    /\ source' = "None"
    /\ audit' = <<Entry("RUN_START", "run", "", "CLAWS OF DOOM")>>
    /\ picks' = <<>>
    /\ active_picks' = <<>>
    /\ newly_closed' = <<>>
    /\ result' = NoResult
    /\ UNCHANGED <<discord, net, active_file, closed_file>>

NextTwice ==
    \/ Rerun
    \/ GetFearGreed
    \/ GetPricesIter
    \/ TrackPerformance
    \/ TrackRaises
    \/ GeneratePicks
    \/ ReportRaises
    \/ MergeAndSave

SpecTwice == InitTwice /\ [][NextTwice]_vars

(***************************************************************************)
(* One run over empty files with Binance quoting BTC at $100, for many     *)
(* answers of the sentiment, funding and candle services.                  *)
(***************************************************************************)
StrategyFng == {FngExc, FngOk(-5), FngOk(0), FngOk(10), FngOk(25), FngOk(30), FngOk(60), FngOk(100)}

StrategyChanges == {-20, -12, 0, 6, 30}

StrategyFunding == {FundingHttp, FundingOk(6), FundingOk(30), FundingOk(-4)}

StrategyKlines == {KlinesHttp, KlinesOk(TRUE, 7600, TRUE, TRUE), KlinesOk(TRUE, 4000, FALSE, TRUE)}

StrategyNets ==
    {[ViaBinance("BTC" :> <<100000, ch>>, f)
        EXCEPT !.funding = [AllCoins(FundingEmpty) EXCEPT !["BTC"] = fr],
               !.klines = [AllCoins(KlinesExc) EXCEPT !["BTC"] = kl]] :
        f \in StrategyFng, ch \in StrategyChanges, fr \in StrategyFunding,
        kl \in StrategyKlines}

InitStrategies ==
    /\ RunEntered
    /\ net \in StrategyNets
    /\ now = 1
    /\ runs = 1
    /\ active_file = <<>>
    /\ closed_file = <<>>

NextStrategies ==
    \/ GetFearGreed
    \/ GetPricesIter
    \/ TrackPerformance
    \/ GeneratePicks
    \/ MergeAndSave

SpecStrategies == InitStrategies /\ [][NextStrategies]_vars

(***************************************************************************)
(* The engine over several runs on a disk where a write can be cut short.  *)
(***************************************************************************)
NextDisk ==
    \/ Next
    \/ SaveClosedInterrupted
    \/ SaveActiveInterrupted

SpecDisk == Init /\ [][NextDisk]_vars

(***************************************************************************)
(* The engine followed by the notifier (discord_notify.py), the post-scan  *)
(* step of the workflow, with DISCORD_WEBHOOK_URL set.                     *)
(***************************************************************************)
\* send_status: the counts of the status embed.
send_status(active, closed) ==
    [active_picks |-> Len(active),
     total_closed |-> Len(closed),
     wins |-> CountExit(closed, "TP_HIT"),
     losses |-> Len(closed) - CountExit(closed, "TP_HIT")]

\* send_closed_picks: one embed is posted per entry, in order.
send_closed_picks(recently_closed) == recently_closed

\* main of discord_notify.py: the three files are loaded (one that cannot be
\* read counts as empty), the status is sent, and the closed-pick alerts go
\* out for picks.json's closed_picks_recent.
Notify ==
    /\ pc = "done"
    /\ result.written
    /\ discord' = Append(discord,
                         [status |-> send_status(_load_active_picks(active_file),
                                                 _load_closed_picks(closed_file)),
                          closed |-> send_closed_picks(result.closed_picks_recent)])
    /\ pc' = "notified"
    /\ UNCHANGED <<result, net, now, runs, fg, fg_source, fng_requests, api_calls, prices,
                   source, audit, picks, active_picks, newly_closed, active_file,
                   closed_file>>

\* Every completed engine run is followed by a notifier run.
NextNotify ==
    \/ pc # "done" /\ NewRun
    \/ RunStep
    \/ Notify

SpecNotify == Init /\ [][NextNotify]_vars

\* A second process, started while this one is between its reading of
\* active_picks.json and its writing of it, runs from start to end.
OtherRun ==
    /\ pc \in {"strategies", "merge"}
    /\ runs < MaxRuns
    /\ runs' = runs + 1
    /\ \E o \in {other_run(active_file, closed_file, n, now) : n \in LeanNets} :
          /\ active_file' = o.active
          /\ closed_file' = o.closed
          /\ <<active_file', closed_file'>> # <<active_file, closed_file>>
    /\ UNCHANGED <<pc, discord, result, net, now, fg, fg_source, fng_requests, api_calls, prices,
                   source, audit, picks, active_picks, newly_closed>>

NextOverlap ==
    \/ Next
    \/ OtherRun

SpecOverlap == Init /\ [][NextOverlap]_vars

(***************************************************************************)
(* One process, then a second, over a closed_picks.json that earlier runs  *)
(* have filled up to, or close to, the 1000 entries the history keeps.     *)
(***************************************************************************)
\* An entry an earlier run appended to closed_picks.json.
OldClosed(i) ==
    [id |-> <<"fear", "SOL", i>>, symbol |-> "SOL", strategy |-> "extreme_fear",
     direction |-> "LONG", status |-> "TP_HIT", closed_at_est |-> 0]

OldHistory(n) == [i \in 1..n |-> OldClosed(i)]

OldHistories == {OldHistory(n) : n \in {0, 998, 999, 1000}}

InitHistory ==
    /\ RunEntered
    /\ net \in LeanNets
    /\ now = 1
    /\ runs = 1
    /\ active_file \in SeedActive
    /\ closed_file \in OldHistories

NextHistory ==
    \/ Rerun
    \/ GetFearGreed
    \/ GetPricesIter
    \/ TrackPerformance
    \/ TrackRaises
    \/ GeneratePicks
    \/ ReportRaises
    \/ MergeAndSave

SpecHistory == InitHistory /\ [][NextHistory]_vars

(***************************************************************************)
(* The deduplication of run() alone, on candidate lists over five symbols  *)
(* and both directions, long enough to be cut at eight picks.  net holds   *)
(* the candidates.                                                         *)
(***************************************************************************)
\* Candidate number i has a key that walks through the ten keys and a
\* confidence that walks through 55..80 in steps of the pattern w; a repeat
\* is a candidate of a key seen before, as a later strategy produces it.
DedupInputs ==
    LET symbols == <<"BTC", "ETH", "SOL", "BNB", "XRP">>
        Candidate(i, w) ==
            [id |-> <<"cand", i>>,
             symbol |-> symbols[((i - 1) % 5) + 1],
             direction |-> IF ((i - 1) \div 5) % 2 = 0 THEN "LONG" ELSE "SHORT",
             strategy |-> "extreme_fear",
             confidence |-> 55 + ((i * w) % 6) * 5]
        Repeats ==
            {[id |-> <<"rep", c, sym, d>>, symbol |-> sym, direction |-> d,
              strategy |-> "crash_reversal", confidence |-> c] :
                c \in {55, 70, 80}, sym \in {"BTC", "SOL"}, d \in {"LONG", "SHORT"}}
    IN  {[i \in 1..n |-> Candidate(i, w)] \o tail :
            n \in {0, 1, 7, 8, 9, 10}, w \in {0, 1, 5},
            tail \in {<<>>} \cup {<<a>> : a \in Repeats}
                     \cup {<<a, b>> : a \in Repeats, b \in {r \in Repeats : r.symbol = "BTC"}}}

InitDedup ==
    /\ pc = "dedup"
    /\ net \in [all_picks : DedupInputs]
    /\ now = 1
    /\ runs = 1
    /\ fg = 0
    /\ fg_source = "None"
    /\ fng_requests = 0
    /\ api_calls = <<>>
    /\ prices = NoneMap
    /\ source = "None"
    /\ audit = <<>>
    /\ picks = <<>>
    /\ active_picks = <<>>
    /\ newly_closed = <<>>
    /\ active_file = <<>>
    /\ closed_file = <<>>
    /\ result = NoResult
    /\ discord = <<>>

\* Lines 1113-1120.
Dedup ==
    /\ pc = "dedup"
    /\ picks' = dedup(net.all_picks)
    /\ pc' = "deduped"
    /\ UNCHANGED <<discord, result, net, now, runs, fg, fg_source, fng_requests, api_calls,
                   prices, source, audit, active_picks, newly_closed, active_file,
                   closed_file>>

SpecDedup == InitDedup /\ [][Dedup]_vars

(***************************************************************************)
(* The indicators.  Closes are whole dollars.  Python computes in floats;  *)
(* here a value is the exact fraction num / den, and None has its own      *)
(* mark.  _calc_rsi's result, rounded to two decimals, is hundredths over  *)
(* 100.                                                                    *)
(***************************************************************************)
NoneValue == [none |-> TRUE, num |-> 0, den |-> 1]

Fraction(n, d) == [none |-> FALSE, num |-> n, den |-> d]

\* sum(values)
RECURSIVE Sum(_)
Sum(values) == IF values = <<>> THEN 0 ELSE Head(values) + Sum(Tail(values))

\* An RSI over the plain averages of the last `period` gains and losses.
_calc_rsi_plain(closes, period) ==
    IF Len(closes) < period + 1 THEN NoneValue
    ELSE LET deltas == [i \in 1..(Len(closes) - 1) |-> closes[i + 1] - closes[i]]
             gains == [i \in DOMAIN deltas |-> IF deltas[i] > 0 THEN deltas[i] ELSE 0]
             losses == [i \in DOMAIN deltas |-> IF deltas[i] < 0 THEN -deltas[i] ELSE 0]
             g == Sum(LastN(gains, period))
             l == Sum(LastN(losses, period))
         IN  IF l = 0 THEN Fraction(10000, 100)
             ELSE Fraction(RoundDiv(10000 * g, g + l), 100)

\* _calc_rsi.  After the loop has taken k deltas beyond the first `period`,
\* avg_gain and avg_loss are g / period^(k+1) and l / period^(k+1).
_calc_rsi(closes, period) ==
    IF Len(closes) < period + 1 THEN NoneValue
    ELSE LET deltas == [i \in 1..(Len(closes) - 1) |-> closes[i + 1] - closes[i]]
             gains == [i \in DOMAIN deltas |-> IF deltas[i] > 0 THEN deltas[i] ELSE 0]
             losses == [i \in DOMAIN deltas |-> IF deltas[i] < 0 THEN -deltas[i] ELSE 0]
             RECURSIVE loop(_, _, _, _)
             loop(i, g, l, scale) ==
                 IF i > Len(gains) THEN <<g, l>>
                 ELSE loop(i + 1, g * (period - 1) + gains[i] * scale,
                           l * (period - 1) + losses[i] * scale, scale * period)
             avg == loop(period + 1, Sum(SubSeq(gains, 1, period)),
                         Sum(SubSeq(losses, 1, period)), period)
         IN  IF avg[2] = 0 THEN Fraction(10000, 100)
             ELSE Fraction(RoundDiv(10000 * avg[1], avg[1] + avg[2]), 100)

\* A moving average over the first `period` values instead of the last.
_calc_sma_oldest(values, period) ==
    IF Len(values) < period THEN NoneValue
    ELSE Fraction(Sum(FirstN(values, period)), period)

_calc_sma(values, period) ==
    IF Len(values) < period THEN NoneValue
    ELSE Fraction(Sum(LastN(values, period)), period)

\* _calc_ema: ema = (val - ema) * 2 / (period + 1) + ema is
\* (ema * (period - 1) + 2 * val) / (period + 1).
_calc_ema(values, period) ==
    IF Len(values) < period THEN NoneValue
    ELSE LET RECURSIVE loop(_, _, _)
             loop(i, n, d) ==
                 IF i > Len(values) THEN Fraction(n, d)
                 ELSE loop(i + 1, n * (period - 1) + 2 * values[i] * d, d * (period + 1))
         IN  loop(period + 1, Sum(SubSeq(values, 1, period)), period)

\* The series the indicators are applied to: up to MaxCloses closes of $1
\* to $3, with periods 2 and 3.
MaxCloses == 5

CloseSeries == UNION {[1..n -> 1..3] : n \in 0..MaxCloses}

InitIndicators ==
    /\ pc = "indicators"
    /\ net \in [closes : CloseSeries, period : {2, 3}]
    /\ now = 1
    /\ runs = 1
    /\ fg = 0
    /\ fg_source = "None"
    /\ fng_requests = 0
    /\ api_calls = <<>>
    /\ prices = NoneMap
    /\ source = "None"
    /\ audit = <<>>
    /\ picks = <<>>
    /\ active_picks = <<>>
    /\ newly_closed = <<>>
    /\ active_file = <<>>
    /\ closed_file = <<>>
    /\ result = NoResult
    /\ discord = <<>>

\* The three indicators are computed over the series.
Indicators ==
    /\ pc = "indicators"
    /\ result' = [written |-> TRUE,
                  rsi |-> _calc_rsi(net.closes, net.period),
                  sma |-> _calc_sma(net.closes, net.period),
                  ema |-> _calc_ema(net.closes, net.period)]
    /\ pc' = "done"
    /\ UNCHANGED <<discord, net, now, runs, fg, fg_source, fng_requests, api_calls, prices,
                   source, audit, picks, active_picks, newly_closed, active_file,
                   closed_file>>

SpecIndicators == InitIndicators /\ [][Indicators]_vars

(***************************************************************************)
(* claws_bulletproof.py (v2.1): one process.  net is the kind of answer    *)
(* each of its five price adapters gets, in the order get_prices tries     *)
(* them: "exc" (the request or the parsing raises), "http" (a status other *)
(* than 200, from every request of the adapter) or "ok" (BTC at $100.00,   *)
(* unchanged on the day).  audit is self.apis_tested, to which an adapter  *)
(* is added by its except clause alone.  The sentiment service says 25.    *)
(***************************************************************************)
v21_apis == <<"coingecko", "binance", "cryptocompare", "coincap", "coinmarketcap">>

\* v2.1, ultimate_fallback
v21_ultimate_fallback(t) ==
    <<[id |-> <<"ULTIMATE", "BTC", Minute(t)>>, symbol |-> "BTC",
       strategy |-> "ULTIMATE_FALLBACK", direction |-> "LONG", confidence |-> 65,
       entry_price |-> 64000000, tp_price |-> 70000000, sl_price |-> 60000000,
       position_pct |-> 20, timestamp_est |-> t],
      [id |-> <<"ULTIMATE", "ETH", Minute(t)>>, symbol |-> "ETH",
       strategy |-> "ULTIMATE_FALLBACK", direction |-> "LONG", confidence |-> 62,
       entry_price |-> 1800000, tp_price |-> 2000000, sl_price |-> 1650000,
       position_pct |-> 15, timestamp_est |-> t]>>

\* v2.1, save: the report's metadata.
v21_save(ps, apis_tested) ==
    [written |-> TRUE,
     pick_count |-> Len(ps),
     fallback_activated |-> Len(apis_tested) >= 5]

InitV21 ==
    /\ pc = "v21_prices"
    /\ net \in [1..Len(v21_apis) -> {"exc", "http", "ok"}]
    /\ now = 1
    /\ runs = 1
    /\ fg = 25
    /\ fg_source = "alternative.me"
    /\ fng_requests = 1
    /\ api_calls = <<>>
    /\ prices = NoneMap
    /\ source = "None"
    /\ audit = <<>>
    /\ picks = <<>>
    /\ active_picks = <<>>
    /\ newly_closed = <<>>
    /\ active_file = <<>>
    /\ closed_file = <<>>
    /\ result = NoResult
    /\ discord = <<>>

\* v2.1, get_prices: one turn of its loop, and after the loop the branch of
\* run() that sets self.picks (extreme_fear at a sentiment of 25, or the
\* ultimate fallback).
V21GetPrices ==
    /\ pc = "v21_prices"
    /\ IF Len(api_calls) = Len(v21_apis)
       THEN /\ picks' = v21_ultimate_fallback(now)
            /\ pc' = "v21_save"
            /\ UNCHANGED <<api_calls, audit, prices, source>>
       ELSE LET a == Len(api_calls) + 1
            IN  /\ api_calls' = Append(api_calls, v21_apis[a])
                /\ audit' = IF net[a] = "exc" THEN Append(audit, v21_apis[a]) ELSE audit
                /\ IF net[a] = "ok"
                   THEN /\ prices' = ("BTC" :> <<100000, 0>>)
                        /\ source' = v21_apis[a]
                        /\ picks' = <<Put(NewPick("fear", "BTC", "extreme_fear", "LONG", 65,
                                                  <<100000, 0>>, 106000, 95000, 35,
                                                  v21_apis[a], fg, now),
                                          "fg_source", "alternative.me")>>
                        /\ pc' = "v21_save"
                   ELSE UNCHANGED <<prices, source, picks, pc>>
    /\ UNCHANGED <<discord, result, net, now, runs, fg, fg_source, fng_requests, active_picks,
                   newly_closed, active_file, closed_file>>

\* v2.1, run: return self.save()
V21Save ==
    /\ pc = "v21_save"
    /\ result' = v21_save(picks, audit)
    /\ pc' = "done"
    /\ UNCHANGED <<discord, net, now, runs, fg, fg_source, fng_requests, api_calls, prices,
                   source, audit, picks, active_picks, newly_closed, active_file,
                   closed_file>>

NextV21 ==
    \/ V21GetPrices
    \/ V21Save

SpecV21 == InitV21 /\ [][NextV21]_vars


(***************************************************************************)
(* Properties of the quote resolver (SpecResolve).                         *)
(***************************************************************************)
\* Whether the adapter at position i of apis returns prices under n.
Succeeds(i, n) == DOMAIN ApiCall(apis[i], n).prices # {}

\* The position of the earliest adapter that succeeds under n, 0 if none does.
FirstSuccess(n) ==
    IF \E i \in 1..Len(apis) : Succeeds(i, n)
    THEN CHOOSE i \in 1..Len(apis) :
            Succeeds(i, n) /\ \A j \in 1..(i - 1) : ~Succeeds(j, n)
    ELSE 0

\* get_prices has returned.
Returned == pc \in {"track", "strategies", "merge", "done", "crashed"}

\* C1: whatever the adapters answer, get_prices returns the price map and the
\* source tag of the earliest adapter of the list that succeeds, also when a
\* later adapter would succeed too.
C1_PriorityHolds ==
    (Returned /\ FirstSuccess(net) # 0) =>
        LET r == ApiCall(apis[FirstSuccess(net)], net)
        IN  prices = r.prices /\ source = r.source

\* C1 witness: the second adapter won although two later ones would succeed.
C1_Witness ==
    /\ Returned
    /\ FirstSuccess(net) = 2
    /\ source = "coingecko"
    /\ Succeeds(3, net)
    /\ Succeeds(5, net)

\* C2: within one get_prices call the adapters are invoked in list order, each
\* at most once, an adapter only after every earlier one failed, none after
\* the first success, and the call has returned once five were invoked.
C2_SequentialFailover ==
    /\ Len(api_calls) <= Len(apis)
    /\ api_calls = SubSeq(apis, 1, Len(api_calls))
    /\ \A j \in 1..(Len(api_calls) - 1) : ~Succeeds(j, net)
    /\ (pc = "get_prices" /\ api_calls # <<>>) => ~Succeeds(Len(api_calls), net)
    /\ Len(api_calls) = Len(apis) => Returned

\* C2 witness: the call returned on the third adapter, after two failures.
C2_Witness ==
    /\ Returned
    /\ api_calls = <<"binance", "coingecko", "cryptocompare">>
    /\ source = "cryptocompare"
    /\ Succeeds(4, net)

\* C3: when every adapter fails get_prices returns (None, None); a price it
\* returns was reported by an adapter; the hardcoded picks appear only when the
\* resolver returned nothing, announced by run and labelled by
\* ultimate_fallback; every other pick is entered at a price of the snapshot.
C3_NoFabricatedPrices ==
    /\ (Returned /\ FirstSuccess(net) = 0) => (prices = NoneMap /\ source = "None")
    /\ Returned =>
          \A c \in DOMAIN prices :
             \E i \in 1..Len(apis) :
                LET r == ApiCall(apis[i], net)
                IN  c \in DOMAIN r.prices /\ r.prices[c] = prices[c]
    /\ pc \in {"merge", "done"} =>
          \A k \in 1..Len(picks) :
             IF source = "None"
             THEN /\ picks[k].strategy = "ULTIMATE_FALLBACK"
                  /\ \E j \in 1..Len(audit) : audit[j].event = "FALLBACK"
                  /\ \E j \in 1..Len(audit) : audit[j].event = "ULTIMATE_FALLBACK"
             ELSE /\ picks[k].strategy # "ULTIMATE_FALLBACK"
                  /\ picks[k].symbol \in DOMAIN prices
                  /\ picks[k].entry_price = Round2(prices[picks[k].symbol][1])

\* C3 witness: a run that got three empty 200 answers and two failures ended
\* with the two hardcoded picks and no prices.
C3_Witness ==
    /\ pc = "done"
    /\ net.coingecko.kind = "ok"
    /\ net.cryptocompare.kind = "ok"
    /\ net.coinlore.kind = "ok"
    /\ prices = NoneMap
    /\ source = "None"
    /\ Len(picks) = 2
    /\ picks[1].strategy = "ULTIMATE_FALLBACK"

\* C4: when every adapter fails, the audit trail holds for each of the five
\* adapters an entry that names it.
C4_AttemptLogComplete ==
    (Returned /\ source = "None") =>
        \A i \in 1..Len(apis) :
            \E k \in 1..Len(audit) : audit[k].who = ApiLabel(apis[i])

\* C5: a non-null source tag comes with a non-empty map in which every price
\* is strictly positive.
C5_WinnerAllPositive ==
    (Returned /\ source # "None") =>
        /\ DOMAIN prices # {}
        /\ \A c \in DOMAIN prices : prices[c][1] > 0

SameSignal(a, b) ==
    /\ StratKey(a) = StratKey(b)
    /\ a.id = b.id
    /\ a.timestamp_est = b.timestamp_est

\* _track_performance has returned to run with a snapshot.
Tracked == pc = "strategies" /\ Truthy(prices)

\* The record _track_performance made of the pick p of active_picks.json.
Outcome(p) ==
    IF \E j \in 1..Len(newly_closed) : StratKey(newly_closed[j]) = StratKey(p)
    THEN newly_closed[CHOOSE j \in 1..Len(newly_closed) :
                         StratKey(newly_closed[j]) = StratKey(p)]
    ELSE IF \E j \in 1..Len(active_picks) : StratKey(active_picks[j]) = StratKey(p)
    THEN active_picks[CHOOSE j \in 1..Len(active_picks) :
                         StratKey(active_picks[j]) = StratKey(p)]
    ELSE [status |-> "LOST"]

\* The picks of active_picks.json whose symbol the snapshot prices.
Priced == {k \in 1..Len(active_file) : active_file[k].symbol \in DOMAIN prices}

\* C7: once a run has ended, a pick recorded in closed_picks.json is not in
\* active_picks.json.
C7_ClosedIsTerminal ==
    pc \in {"done", "crashed"} =>
    \A i \in 1..Len(active_file) :
       \A j \in 1..Len(closed_file) : ~SameSignal(active_file[i], closed_file[j])

\* C8: active_picks.json never holds two picks of one symbol and strategy.
C8_OneActivePerKey ==
    \A i, j \in 1..Len(active_file) :
       StratKey(active_file[i]) = StratKey(active_file[j]) => i = j

\* C8 witness: a completed run generated a pick whose key was taken and left
\* it out of the file, which holds two picks.
C8_Witness ==
    /\ pc = "done"
    /\ Len(active_file) >= 2
    /\ \E k \in 1..Len(picks) :
          /\ "status" \notin DOMAIN picks[k]
          /\ \E i \in 1..Len(active_file) :
                /\ StratKey(active_file[i]) = StratKey(picks[k])
                /\ active_file[i].timestamp_est < picks[k].timestamp_est

\* C9: a priced pick is closed CLOSED_TP exactly when the price is at or
\* beyond its take-profit (at or above for a LONG, at or below for a SHORT),
\* otherwise CLOSED_SL exactly when the price is at or beyond its stop-loss,
\* and otherwise stays ACTIVE.
C9_TpSlDecision ==
    Tracked =>
       \A k \in Priced :
          LET p == active_file[k]
              cur == prices[p.symbol][1]
              long == p.direction # "SHORT"
              tp == IF long THEN cur >= p.tp_price ELSE cur <= p.tp_price
              sl == IF long THEN cur <= p.sl_price ELSE cur >= p.sl_price
          IN  Outcome(p).status =
                 (IF tp THEN "CLOSED_TP" ELSE IF sl THEN "CLOSED_SL" ELSE "ACTIVE")

\* C9 witness: a pick whose take-profit and stop-loss were both met was closed
\* CLOSED_TP.
C9_Witness ==
    /\ Tracked
    /\ \E k \in Priced :
          LET p == active_file[k]
              cur == prices[p.symbol][1]
          IN  /\ cur >= p.tp_price
              /\ cur <= p.sl_price
              /\ p.direction = "LONG"
              /\ Outcome(p).status = "CLOSED_TP"

\* The P&L percent of pick p at price cur by the formula, rounded half-even
\* to hundredths of a percent.
FormulaPct(p, cur) ==
    IF p.direction = "SHORT"
    THEN RoundScaled(p.entry_price - cur, 10000, p.entry_price)
    ELSE RoundScaled(cur - p.entry_price, 10000, p.entry_price)

\* What the division of the formula leaves over: 0 when the percent has no
\* more than two decimals.
FormulaRest(p, cur) ==
    LET n == IF p.direction = "SHORT" THEN p.entry_price - cur ELSE cur - p.entry_price
        d == p.entry_price
        nn == IF d < 0 THEN -n ELSE n
        dd == IF d < 0 THEN -d ELSE d
    IN  LongDiv(nn \div dd, nn % dd, 10000, dd)[2]

\* C10: the P&L percent stamped on a priced pick is 100*(current-entry)/entry
\* for a LONG and 100*(entry-current)/entry for a SHORT, rounded to two
\* decimals; the realized percent of a pick closed is that value; the five
\* examples of the specification come out as stated.
C10_PnlRounded ==
    Tracked =>
       \A k \in Priced :
          LET p == active_file[k]
              cur == prices[p.symbol][1]
              o == Outcome(p)
              long100 == /\ p.direction = "LONG" /\ p.entry_price = 100000
                         /\ p.tp_price = 106000 /\ p.sl_price = 95000
              short100 == /\ p.direction = "SHORT" /\ p.entry_price = 100000
                          /\ p.tp_price = 97000 /\ p.sl_price = 102000
          IN  /\ o.unrealized_pnl_pct = FormulaPct(p, cur)
              /\ o.status # "ACTIVE" => o.realized_pnl_pct = FormulaPct(p, cur)
              /\ (long100 /\ cur = 106000) =>
                    (o.status = "CLOSED_TP" /\ o.realized_pnl_pct = 600)
              /\ (long100 /\ cur = 95000) =>
                    (o.status = "CLOSED_SL" /\ o.realized_pnl_pct = -500)
              /\ (long100 /\ cur = 100500) =>
                    (o.status = "ACTIVE" /\ o.unrealized_pnl_pct = 50)
              /\ (short100 /\ cur = 97000) =>
                    (o.status = "CLOSED_TP" /\ o.realized_pnl_pct = 300)
              /\ (short100 /\ cur = 102000) =>
                    (o.status = "CLOSED_SL" /\ o.realized_pnl_pct = -200)

\* C10 witness: a LONG was closed at a price where the percent has more
\* than two decimals, with the rounded value as its realized percent.
C10_Witness ==
    /\ Tracked
    /\ \E k \in Priced :
          LET p == active_file[k]
              cur == prices[p.symbol][1]
          IN  /\ p.direction = "LONG"
              /\ FormulaRest(p, cur) # 0
              /\ Outcome(p).status # "ACTIVE"
              /\ Outcome(p).realized_pnl_pct = FormulaPct(p, cur)

\* C10 as stated: the percent stamped is the quotient of the formula itself.
C10_PnlExact ==
    Tracked =>
       \A k \in Priced :
          LET p == active_file[k]
              cur == prices[p.symbol][1]
          IN  /\ FormulaRest(p, cur) = 0
              /\ Outcome(p).unrealized_pnl_pct = FormulaPct(p, cur)

\* C11: a run that saves the active picks writes every pick whose symbol its
\* snapshot does not price back as it was, field for field.
C11_AbsentCarried ==
    [][(pc = "merge" /\ pc' = "done") =>
          \A k \in 1..Len(active_file) :
             active_file[k].symbol \notin DOMAIN prices =>
                \E j \in 1..Len(active_file') : active_file'[j] = active_file[k]]_vars

\* C11 witness: a run with prices for BTC alone has saved an ETH pick of an
\* earlier run that no run has priced since.
C11_Witness ==
    /\ pc = "done"
    /\ DOMAIN prices = {"BTC"}
    /\ \E k \in 1..Len(active_file) :
          /\ active_file[k].symbol = "ETH"
          /\ active_file[k].timestamp_est < now
          /\ "last_checked_est" \notin DOMAIN active_file[k]

\* The candidate picks[k] of the run finds its key among the tracked picks.
KeyTaken(k) ==
    \E j \in 1..Len(active_picks) : StratKey(active_picks[j]) = StratKey(picks[k])

\* C12: the merge writes the tracked picks back unchanged and in place,
\* followed by the candidates whose key was free, each as generated but for
\* status ACTIVE; a candidate whose key was taken is written nowhere.
C12_MergeKeepsExisting ==
    [][(pc = "merge" /\ pc' = "done") =>
          LET n == Len(active_picks)
              added == (n + 1)..Len(active_file')
          IN  /\ Len(active_file') >= n
              /\ SubSeq(active_file', 1, n) = active_picks
              /\ \A k \in 1..Len(picks) :
                    IF KeyTaken(k)
                    THEN \A j \in added : StratKey(active_file'[j]) # StratKey(picks[k])
                    ELSE \E j \in added : active_file'[j] = Put(picks[k], "status", "ACTIVE")
              /\ \A j \in added :
                    \E k \in 1..Len(picks) :
                       ~KeyTaken(k) /\ active_file'[j] = Put(picks[k], "status", "ACTIVE")]_vars

\* C12 witness: a run dropped a candidate for a key whose active pick was
\* entered at another price, and appended another candidate.
C12_Witness ==
    /\ pc = "done"
    /\ \E k \in 1..Len(picks) :
          /\ "status" \notin DOMAIN picks[k]
          /\ \E i \in 1..Len(active_file) :
                /\ StratKey(active_file[i]) = StratKey(picks[k])
                /\ active_file[i].entry_price # picks[k].entry_price
    /\ \E k \in 1..Len(picks) :
          /\ "status" \in DOMAIN picks[k]
          /\ picks[k].status = "ACTIVE"
          /\ active_file[Len(active_file)] = picks[k]

\* C17: _track_performance returns to run whatever the active picks hold; a
\* pick it cannot evaluate, having entry_price 0, stays ACTIVE among the
\* tracked picks and the audit trail holds a FAIL entry about it.
C17_TrackingSurvives ==
    [][(pc = "track" /\ Truthy(prices)) =>
          /\ pc' = "strategies"
          /\ \A k \in Priced :
                active_file[k].entry_price = 0 =>
                   /\ \E j \in 1..Len(active_picks') :
                         /\ SameSignal(active_picks'[j], active_file[k])
                         /\ active_picks'[j].status = "ACTIVE"
                   /\ \E e \in 1..Len(audit') :
                         audit'[e].who = active_file[k].symbol /\ audit'[e].status = "FAIL"]_vars

(***************************************************************************)
(* Properties of the two files under failing writes (SpecDisk).            *)
(***************************************************************************)
\* C18: a run that dies leaves both files as they were; a file that cannot
\* be read is not replaced; and a run that finds active_picks.json
\* unreadable dies instead of going on.
C18_FilesNeverCorrupted ==
    [][/\ pc' = "crashed" => (active_file' = active_file /\ closed_file' = closed_file)
       /\ active_file = Unreadable => active_file' = Unreadable
       /\ closed_file = Unreadable => closed_file' = Unreadable
       /\ (pc = "track" /\ active_file = Unreadable) => pc' = "crashed"]_vars

Untimed(p) == [k \in (DOMAIN p) \ {"last_checked_est"} |-> p[k]]

\* Every pick of the sequence ps stems from before the two runs: neither run
\* has merged a candidate into it.
NoNewCandidates(ps) == \A k \in 1..Len(ps) : ps[k].timestamp_est = 0

TechnicalOf(p) ==
    CASE p.strategy = "funding_rate_carry" -> funding_tech_bonus(p.funding_rate_pct)
      [] p.strategy = "rsi_overbought_short" -> rsi_tech_bonus(p.rsi_14)
      [] p.strategy = "ema_bearish_cross" -> ema_tech_bonus(p.rsi_14)
      [] OTHER -> 0

\* The sum of the three bonuses behind the confidence of the strategy pick p.
BonusOf(p) == BonusSum(p.fg_value, p.change_24h_pct, TechnicalOf(p))

C16_BonusSumBounded ==
    pc = "merge" =>
       \A k \in 1..Len(picks) :
          (picks[k].strategy # "ULTIMATE_FALLBACK" /\ picks[k].fg_value \in 0..100) =>
             BonusOf(picks[k]) <= 250

\* C19: when runs overlap, no update is lost: every pick that is in
\* active_picks.json when a run writes the file is, after the write, still in
\* active_picks.json or in closed_picks.json.
C19_NoLostUpdate ==
    [][(pc = "merge" /\ pc' = "done") =>
          \A k \in 1..Len(active_file) :
             \/ \E j \in 1..Len(active_file') : SameSignal(active_file'[j], active_file[k])
             \/ \E j \in 1..Len(closed_file') : SameSignal(closed_file'[j], active_file[k])]_vars


\* C20: the closed history is append-only and bounded: a save puts the newly
\* closed picks after the entries the file held, in order; the entries kept
\* are unchanged and in their order; and the file holds at most 1000
\* entries, the most recent ones.
C20_HistoryAppendOnlyBounded ==
    [][(pc = "track" /\ pc' # "crashed") =>
          LET whole == closed_file \o newly_closed'
              dropped == IF Len(whole) > 1000 THEN Len(whole) - 1000 ELSE 0
          IN  /\ Len(closed_file') <= 1000
              /\ Len(closed_file') = Len(whole) - dropped
              /\ \A i \in 1..Len(closed_file') : closed_file'[i] = whole[i + dropped]]_vars

\* A save that pushed the oldest entries out: the file is full, it ends with
\* the pick closed in this run and no longer starts with the oldest entry.
C20_Witness ==
    /\ pc = "strategies"
    /\ newly_closed # <<>>
    /\ Len(closed_file) = 1000
    /\ closed_file[1000] = newly_closed[Len(newly_closed)]
    /\ closed_file[1] # OldClosed(1)


\* C21: the report's statistics are computed over the closed history as it
\* is after this run's closures were appended and over the active set as it
\* is written: total_closed counts the history, the win rate is the
\* percentage wins / total_closed to the nearest tenth (0 over an empty
\* history), the realized total is the sum over the history and the
\* unrealized total the sum over the active set.
C21_PerformanceStats ==
    result.written =>
       LET perf == result.performance
           total == Len(closed_file)
           wins == CountExit(closed_file, "TP_HIT")
       IN  /\ \A k \in 1..Len(newly_closed) :
                 \E j \in 1..total : closed_file[j] = newly_closed[k]
           /\ perf.total_closed = total
           /\ perf.wins = wins
           /\ IF total = 0 THEN perf.win_rate_pct = 0
              ELSE 2 * Abs(perf.win_rate_pct * total - 1000 * wins) <= total
           /\ perf.total_realized_pnl_dollar = SumOf(closed_file, "realized_pnl_dollar")
           /\ perf.total_unrealized_pnl_dollar = SumOf(active_file, "unrealized_pnl_dollar")

\* A run that closed a pick reports over a history that holds a win and a
\* loss.
C21_Witness ==
    /\ result.written
    /\ newly_closed # <<>>
    /\ result.performance.wins >= 1
    /\ result.performance.losses >= 1


\* The entries of a log for one event, in the log's order, as the pairs of
\* what they name.
Named(log, event) ==
    LET hits == SelectSeq(log, LAMBDA e : e.event = event)
    IN  [k \in 1..Len(hits) |-> <<hits[k].who, hits[k].detail>>]

\* C22: within a run the audit log only grows, the entries it holds staying
\* as they are; the tracking step adds one PICK_CLOSED for each pick it
\* closed and the merge one PICK_ACTIVATED for each pick it activated, in the
\* order of the closures and of the activations.
C22_AuditAppendOnly ==
    [][pc' # "fear_greed" =>
          LET added == SubSeq(audit', Len(audit) + 1, Len(audit'))
              activated == SubSeq(active_picks', Len(active_picks) + 1, Len(active_picks'))
          IN  /\ Len(audit') >= Len(audit)
              /\ SubSeq(audit', 1, Len(audit)) = audit
              /\ (pc = "track" /\ pc' = "strategies") =>
                    [k \in 1..Len(Named(added, "PICK_CLOSED")) |->
                        Named(added, "PICK_CLOSED")[k][1]]
                    = [k \in 1..Len(newly_closed') |-> newly_closed'[k].symbol]
              /\ (pc = "merge" /\ pc' = "done") =>
                    Named(added, "PICK_ACTIVATED")
                    = [k \in 1..Len(activated) |-> <<activated[k].symbol, activated[k].strategy>>]]_vars

\* A run that closed a pick and activated one has ended, and its log holds
\* an entry for each.
C22_Witness ==
    /\ pc = "done"
    /\ newly_closed # <<>>
    /\ Len(active_picks) > 0
    /\ Named(audit, "PICK_CLOSED") # <<>>
    /\ Named(audit, "PICK_ACTIVATED") # <<>>


\* C23: once run() has called the six strategies, the audit log holds for
\* each of them at least one entry that states its decision:
\* STRATEGY_TRIGGERED, STRATEGY_SKIP or PICK_GENERATED.
C23_EveryStrategyDecides ==
    (pc \in {"merge", "done"} /\ Truthy(prices)) =>
       \A st \in strategies_evaluated :
          \E k \in 1..Len(audit) :
             /\ audit[k].event \in {"STRATEGY_TRIGGERED", "STRATEGY_SKIP", "PICK_GENERATED"}
             /\ audit[k].who = st


\* Every price adapter fails against the answers of this run.
AllFailed == \A i \in 1..Len(apis) : ~Succeeds(i, net)

\* C24: the report's metadata.fallback_activated is true if and only if
\* every price adapter failed in the run, and a run in which every adapter
\* fails goes on to its end and writes the report, flag set.
C24_FallbackFlag ==
    /\ [](result.written => (result.fallback_activated <=> AllFailed))
    /\ (pc = "fear_greed" /\ AllFailed) ~> (pc = "done" /\ result.written /\ result.fallback_activated)

\* A run in which nothing answered has written its report.
C24_Witness ==
    /\ pc = "done"
    /\ AllFailed
    /\ result.written
    /\ result.fallback_activated
    /\ Len(picks) = 2


\* C25: in v2.1 the report's metadata.fallback_activated is true exactly
\* when the picks are the ultimate-fallback picks, that is, when all five
\* adapters failed, whether by an exception or by a status other than 200.
C25_V21FallbackFlag ==
    result.written =>
       /\ result.fallback_activated
          <=> (\E k \in 1..Len(picks) : picks[k].strategy = "ULTIMATE_FALLBACK")
       /\ result.fallback_activated <=> (\A a \in DOMAIN net : net[a] # "ok")


\* C26: every candidate the strategies produce from quoted prices has its
\* stop below and its target above the entry when LONG, and the reverse when
\* SHORT, after the rounding of the three to two decimals.
C26_TpSlOrdered ==
    (pc \in {"merge", "done"} /\ Truthy(prices)) =>
       \A k \in 1..Len(picks) :
          IF picks[k].direction = "LONG"
          THEN picks[k].sl_price < picks[k].entry_price
               /\ picks[k].entry_price < picks[k].tp_price
          ELSE picks[k].tp_price < picks[k].entry_price
               /\ picks[k].entry_price < picks[k].sl_price


\* C27: an id names one activation: whenever a run has ended, two entries of
\* active_picks.json and closed_picks.json together that carry the same id
\* are entries of the same activation (they were activated at the same
\* time).
C27_IdsUnique ==
    pc = "done" =>
       LET entries == _load_active_picks(active_file) \o _load_closed_picks(closed_file)
       IN  \A i, j \in 1..Len(entries) :
              entries[i].id = entries[j].id
                 => entries[i].timestamp_est = entries[j].timestamp_est


\* Wilder's average of the values vs with weight 1 / period, times
\* period^(Len(vs) - period + 1): the plain mean of the first `period`
\* values, then avg = (avg * (period - 1) + v) / period for each later v.
RECURSIVE Wilder(_, _)
Wilder(vs, period) ==
    IF Len(vs) = period THEN Sum(vs)
    ELSE Wilder(SubSeq(vs, 1, Len(vs) - 1), period) * (period - 1)
         + vs[Len(vs)] * period ^ (Len(vs) - period)

\* C28: _calc_rsi gives None on fewer than period + 1 closes; 100 when no
\* close is below the one before it (a rising or a flat series); 0 on a
\* strictly falling series; and otherwise 100 * G / (G + L) to two decimals,
\* a value from 0 to 100, for the Wilder averages G and L of the gains and
\* the losses.
C28_Rsi ==
    result.written =>
       LET closes == net.closes
           period == net.period
           steps == 1..(Len(closes) - 1)
           gains == [i \in steps |-> IF closes[i + 1] > closes[i]
                                     THEN closes[i + 1] - closes[i] ELSE 0]
           losses == [i \in steps |-> IF closes[i + 1] < closes[i]
                                      THEN closes[i] - closes[i + 1] ELSE 0]
           G == Wilder(gains, period)
           L == Wilder(losses, period)
       IN  IF Len(closes) < period + 1 THEN result.rsi.none
           ELSE /\ ~result.rsi.none
                /\ result.rsi.den = 100
                /\ result.rsi.num >= 0 /\ result.rsi.num <= 10000
                /\ (\A i \in steps : closes[i + 1] >= closes[i]) => result.rsi.num = 10000
                /\ (\A i \in steps : closes[i + 1] < closes[i]) => result.rsi.num = 0
                /\ L > 0 => 2 * Abs(result.rsi.num * (G + L) - 10000 * G) <= G + L

\* An RSI strictly between 0 and 100 over a series longer than period + 1,
\* where the smoothing has taken steps.
C28_Witness ==
    /\ result.written
    /\ Len(net.closes) > net.period + 2
    /\ ~result.rsi.none
    /\ result.rsi.num > 0
    /\ result.rsi.num < 10000


\* C29: _calc_sma gives None on fewer than `period` values and otherwise
\* the mean of the last `period` values.  _calc_ema gives None on fewer than
\* `period` values, the mean of the first `period` values on exactly that
\* many, and on a longer series the EMA of the series without its last
\* value, moved towards the last value v by ema = (v - ema) * 2 / (period +
\* 1) + ema.
C29_SmaEma ==
    result.written =>
       LET values == net.closes
           period == net.period
           n == Len(values)
           before == _calc_ema(SubSeq(values, 1, n - 1), period)
       IN  IF n < period THEN result.sma.none /\ result.ema.none
           ELSE /\ ~result.sma.none /\ ~result.ema.none
                /\ result.sma.num * period
                   = result.sma.den * Sum([i \in 1..period |-> values[n - period + i]])
                /\ n = period =>
                      result.ema.num * period
                      = result.ema.den * Sum([i \in 1..period |-> values[i]])
                /\ n > period =>
                      result.ema.num * before.den * (period + 1)
                      = result.ema.den * (before.num * (period - 1) + 2 * values[n] * before.den)

\* A series longer than the period whose last values have another mean than
\* its first, and whose EMA is not its SMA.
C29_Witness ==
    /\ result.written
    /\ Len(net.closes) > net.period
    /\ ~result.sma.none
    /\ result.sma.num # Sum(SubSeq(net.closes, 1, net.period))
    /\ result.ema.num * result.sma.den # result.sma.num * result.ema.den


\* The symbols Binance gave a price for: its answer for the symbol was a
\* quote, and no request before it raised (after which none is sent).
BinanceObtained ==
    {SYMBOLS[k] : k \in {j \in 1..Len(SYMBOLS) :
                            /\ net.binance[SYMBOLS[j]].kind = "ok"
                            /\ \A h \in 1..(j - 1) : net.binance[SYMBOLS[h]].kind # "exc"}}

\* C30: partial success is accepted: when Binance obtained a price for one
\* symbol or more, get_prices returns Binance's map with exactly the symbols
\* obtained and consults no later adapter, also when the request for a
\* later symbol failed after an earlier one succeeded.
C30_PartialSuccess ==
    (Returned /\ BinanceObtained # {}) =>
        /\ source = "binance"
        /\ DOMAIN prices = BinanceObtained
        /\ api_calls = <<"binance">>

\* The closed-pick alerts the notifier has sent, run after run, in order.
Alerted == FlattenSeq([k \in 1..Len(discord) |-> discord[k].closed])

\* C31: over engine runs each followed by a notifier run, the closed-pick
\* alerts of a notifier run are the picks its engine run closed, and no
\* closed pick is alerted twice.
C31_AlertedOnceWhenClosed ==
    /\ pc = "notified" => discord[Len(discord)].closed = newly_closed
    /\ \A i, j \in 1..Len(Alerted) : i # j => Alerted[i] # Alerted[j]

\* The candidates of the key of p, by position in evaluation order.
SameKey(all_picks, p) == {i \in 1..Len(all_picks) : DirKey(all_picks[i]) = DirKey(p)}

\* C32: after the deduplication the picks hold at most one pick per symbol
\* and direction, which is the earliest of the most confident candidates of
\* its key; they are sorted by falling confidence and are at most eight.
C32_DedupBestPerKey ==
    pc = "deduped" =>
        /\ \A i, j \in 1..Len(picks) : i # j => DirKey(picks[i]) # DirKey(picks[j])
        /\ \A k \in 1..Len(picks) :
              \E i \in SameKey(net.all_picks, picks[k]) :
                 /\ net.all_picks[i] = picks[k]
                 /\ \A j \in SameKey(net.all_picks, picks[k]) :
                       /\ net.all_picks[j].confidence <= picks[k].confidence
                       /\ j < i => net.all_picks[j].confidence < picks[k].confidence
        /\ \A k \in 1..(Len(picks) - 1) : picks[k].confidence >= picks[k + 1].confidence
        /\ Len(picks) <= 8

\* Ten keys among the candidates, two of them repeated with a confidence
\* equal to the best so far and with a higher one: eight picks are kept.
C32_Witness ==
    /\ pc = "deduped"
    /\ Len(picks) = 8
    /\ Cardinality({DirKey(net.all_picks[i]) : i \in 1..Len(net.all_picks)}) = 10
    /\ \E i, j \in 1..Len(net.all_picks) :
          /\ i < j
          /\ DirKey(net.all_picks[i]) = DirKey(net.all_picks[j])
          /\ net.all_picks[i].confidence = net.all_picks[j].confidence
          /\ net.all_picks[i] \in {picks[k] : k \in 1..Len(picks)}
    /\ \E i, j \in 1..Len(net.all_picks) :
          /\ i < j
          /\ DirKey(net.all_picks[i]) = DirKey(net.all_picks[j])
          /\ net.all_picks[i].confidence < net.all_picks[j].confidence
          /\ net.all_picks[j] \in {picks[k] : k \in 1..Len(picks)}

\* C33: the picks a run appends to the active picks are written to
\* active_picks.json with status ACTIVE and without any tracking or closing
\* key, whatever the prices of the run; every entry of closed_picks.json was
\* closed by a later run than the one that generated it.
C33_ActivatedNotEvaluated ==
    [][/\ (pc = "merge" /\ pc' = "done") =>
             LET new == SubSeq(active_file', Len(active_picks) + 1, Len(active_file'))
             IN  \A k \in 1..Len(new) :
                    /\ Get(new[k], "status", "None") = "ACTIVE"
                    /\ new[k].timestamp_est = now
                    /\ DOMAIN new[k] \cap {"current_price", "last_checked_est", "exit_price",
                                           "exit_reason", "exit_time_est"} = {}
       /\ \A j \in 1..Len(closed_file') :
             closed_file'[j].exit_time_est > closed_file'[j].timestamp_est]_vars

\* A run has written as ACTIVE a pick it generated at a price that is at its
\* take-profit already, and closed a pick of an earlier run.
C33_Witness ==
    /\ pc = "done"
    /\ Truthy(prices)
    /\ newly_closed # <<>>
    /\ \E k \in 1..Len(active_file) :
          /\ active_file[k].timestamp_est = now
          /\ active_file[k].status = "ACTIVE"
          /\ active_file[k].symbol \in DOMAIN prices
          /\ TpHit(active_file[k], prices[active_file[k].symbol][1])

\* The run holds no prices after get_prices has returned.
NoPrices == pc \in {"track", "strategies", "merge"} /\ ~Truthy(prices)

\* C34: a run without prices closes nothing and leaves closed_picks.json
\* alone; it writes active_picks.json as it found it, followed by those of
\* its picks whose key was not active.
C34_NoPricesKeepsActive ==
    [][NoPrices =>
          /\ closed_file' = closed_file
          /\ newly_closed' = <<>>
          /\ pc' = "strategies" => (active_picks' = active_file /\ active_file' = active_file)
          /\ pc' = "done" =>
                active_file' =
                    active_file
                    \o SelectSeq([k \in 1..Len(picks) |-> Put(picks[k], "status", "ACTIVE")],
                                 LAMBDA p : \A j \in 1..Len(active_file) :
                                               StratKey(active_file[j]) # StratKey(p))]_vars

\* A run without prices has completed over a pick a strategy made in an
\* earlier run and over hardcoded picks that were active already.
C34_Witness ==
    /\ pc = "done"
    /\ ~Truthy(prices)
    /\ \E k \in 1..Len(active_file) :
          /\ active_file[k].strategy # "ULTIMATE_FALLBACK"
          /\ active_file[k].timestamp_est < now
    /\ \E k \in 1..Len(active_file) :
          /\ active_file[k].strategy = "ULTIMATE_FALLBACK"
          /\ active_file[k].timestamp_est < now

\* C35: no pick of active_picks.json carries the hardcoded prices of
\* ultimate_fallback, and a pick a completed run activated was entered at
\* the price a provider reported to that run, rounded to two decimals.
C35_ActiveEntryFromProvider ==
    /\ \A k \in 1..Len(active_file) : active_file[k].strategy # "ULTIMATE_FALLBACK"
    /\ pc = "done" =>
          \A k \in 1..Len(active_file) :
             active_file[k].timestamp_est = now =>
                /\ active_file[k].symbol \in DOMAIN prices
                /\ active_file[k].entry_price = Round2(prices[active_file[k].symbol][1])

\* The positions of ps that hold the signal p.
Holding(ps, p) == {j \in 1..Len(ps) : SameSignal(ps[j], p)}

\* The signals of ps are signals of loaded, in the order loaded has them.
InOrderOf(ps, loaded) ==
    \A i, j \in 1..Len(ps) :
       i < j => \E a, b \in 1..Len(loaded) :
                   a < b /\ SameSignal(loaded[a], ps[i]) /\ SameSignal(loaded[b], ps[j])

\* C36: when _track_performance has returned, every pick it loaded is in
\* exactly one of still_active and newly_closed, once; the two lists hold
\* nothing else and keep the order of the file; the picks of newly_closed
\* are the ones that became CLOSED_TP or CLOSED_SL, the others are ACTIVE.
C36_TrackPartitions ==
    Tracked =>
        /\ \A k \in 1..Len(active_file) :
              Cardinality(Holding(active_picks, active_file[k]))
              + Cardinality(Holding(newly_closed, active_file[k])) = 1
        /\ Len(active_picks) + Len(newly_closed) = Len(active_file)
        /\ InOrderOf(active_picks, active_file)
        /\ InOrderOf(newly_closed, active_file)
        /\ \A j \in 1..Len(newly_closed) : newly_closed[j].status \in {"CLOSED_TP", "CLOSED_SL"}
        /\ \A j \in 1..Len(active_picks) : active_picks[j].status = "ACTIVE"

\* Of three loaded picks the pass closed the middle one, kept one it priced
\* and kept one whose symbol had no price.
C36_Witness ==
    /\ Tracked
    /\ \E a, b, c \in 1..Len(active_file) :
          /\ a < b /\ b < c
          /\ Holding(active_picks, active_file[a]) # {}
          /\ Holding(newly_closed, active_file[b]) # {}
          /\ Holding(active_picks, active_file[c]) # {}
    /\ \E j \in 1..Len(active_picks) : active_picks[j].symbol \notin DOMAIN prices
    /\ \E j \in 1..Len(active_picks) : active_picks[j].symbol \in DOMAIN prices

\* C37: wherever a run stops, completed or dead, no signal is in both
\* active_picks.json and closed_picks.json, no signal the run found active
\* is in neither, and closed_picks.json holds no signal twice.
C37_NeverInBothNorNeither ==
    [][pc' \in {"done", "crashed"} =>
          /\ \A i \in 1..Len(active_file') :
                Holding(closed_file', active_file'[i]) = {}
          /\ \A k \in 1..Len(active_file) :
                Holding(active_file', active_file[k]) \cup Holding(closed_file', active_file[k]) # {}
          /\ \A j \in 1..Len(closed_file') :
                Holding(closed_file', closed_file'[j]) = {j}]_vars

\* C38: every entry of closed_picks.json is CLOSED_TP with exit_reason
\* TP_HIT or CLOSED_SL with exit_reason SL_HIT and carries exit_price,
\* exit_time_est, realized_pnl_pct and realized_pnl_dollar; the wins and
\* losses a run reports add up to total_closed; and the losses the notifier
\* shows are the losses the engine reported.
C38_ClosedEntriesComplete ==
    /\ \A j \in 1..Len(closed_file) :
          /\ <<closed_file[j].status, Get(closed_file[j], "exit_reason", "None")>>
                \in {<<"CLOSED_TP", "TP_HIT">>, <<"CLOSED_SL", "SL_HIT">>}
          /\ {"exit_price", "exit_time_est", "realized_pnl_pct", "realized_pnl_dollar"}
                \subseteq DOMAIN closed_file[j]
    /\ result.written =>
          result.performance.wins + result.performance.losses
            = result.performance.total_closed
    /\ pc = "notified" =>
          /\ discord[Len(discord)].status.losses = result.performance.losses
          /\ discord[Len(discord)].status.wins = result.performance.wins

\* The notifier has reported on a history that holds a win and a loss.
C38_Witness ==
    /\ pc = "notified"
    /\ discord[Len(discord)].status.wins >= 1
    /\ discord[Len(discord)].status.losses >= 1
    /\ result.performance.total_closed >= 2

\* The entries of closed_picks.json of direction d closed with status st.
ClosedAs(d, st) ==
    {j \in 1..Len(closed_file) :
        /\ closed_file[j].strategy \in strategies_evaluated
        /\ closed_file[j].direction = d
        /\ closed_file[j].status = st}

\* C39: a pick of one of the six strategies that closed on its take-profit
\* has a realized P&L percent of zero or more, one that closed on its
\* stop-loss of zero or less, LONG or SHORT.
C39_PnlSignMatchesExit ==
    \A d \in {"LONG", "SHORT"} :
       /\ \A j \in ClosedAs(d, "CLOSED_TP") : closed_file[j].realized_pnl_pct >= 0
       /\ \A j \in ClosedAs(d, "CLOSED_SL") : closed_file[j].realized_pnl_pct <= 0

\* The history holds a SHORT closed on its target at a gain and a LONG
\* closed on its stop at a loss.
C39_Witness ==
    /\ \E j \in ClosedAs("SHORT", "CLOSED_TP") : closed_file[j].realized_pnl_pct > 0
    /\ \E j \in ClosedAs("LONG", "CLOSED_SL") : closed_file[j].realized_pnl_pct < 0

\* C40: a pick that records where the sentiment value came from records the
\* source tag get_fear_greed returned to this run.
C40_SentimentProvenance ==
    pc \in {"merge", "done"} =>
        \A k \in 1..Len(picks) :
           "fg_source" \in DOMAIN picks[k] => picks[k].fg_source = fg_source


====
